---- MODULE Spec2Model ----
(***************************************************************************)
(* Edge appliance pool manager of vmware-nsx (NSX-v plugin).               *)
(*                                                                         *)
(* The model follows vmware_nsx/plugins/nsx_v/vshield/edge_utils.py        *)
(* (EdgeManager, NsxVCallbacks) and vmware_nsx/db/nsxv_db.py.  The Binding *)
(* Store is a set of rows; every nsxv_db call is one transaction and one   *)
(* step of the caller.  API workers run _allocate_edge_appliance and       *)
(* _free_edge_appliance concurrently; the backend task callbacks run       *)
(* beside them.                                                            *)
(***************************************************************************)
EXTENDS Integers, FiniteSets, Sequences, TLC

VARIABLES
    rows,               \* nsxv_router_bindings table: a set of rows
    edge_vnic_bindings, \* nsxv_edge_vnic_bindings table: a set of rows
    edge_pool_dicts,    \* EdgeManager.edge_pool_dicts (parsed backup_edge_pool)
    nsxv_maximum_tunnels_per_vnic, \* cfg.CONF.nsxv.maximum_tunnels_per_vnic
    locks,              \* LockManager locks held, other than 'nsx-edge-request'
    active_edges,       \* backend: edges whose status probe answers ACTIVE
    next_edge,          \* backend: last edge id handed out
    next_uuid,          \* last uuid drawn by _uuid() for a backup router id
    deploy_tasks,       \* deployments in flight (sync or pool worker)
    delete_tasks,       \* backend delete tasks in flight
    update_edge_calls,  \* every nsxv_manager.update_edge call issued so far
    pool_lock,          \* holder of LockManager lock 'nsx-edge-request'
    pc,                 \* position of every API worker
    frame,              \* local variables of every API worker's call
    last,               \* what the last finished step of the store did
    ops,                \* number of API calls started
    faults              \* number of backend faults injected

vars == <<rows, edge_vnic_bindings, edge_pool_dicts,
          nsxv_maximum_tunnels_per_vnic, locks, active_edges, next_edge,
          next_uuid, deploy_tasks, delete_tasks, update_edge_calls, pool_lock,
          pc, frame, last, ops, faults>>

-----------------------------------------------------------------------------
(* Bounds of the model *)

MaxOps == 2
MaxUuid == 3
MaxEdges == 3
MaxFaults == 1
MaxPersisted == 2
MaxPooled == 2

\* the API workers serving calls; a call goes to the first idle one
Procs == {"p1", "p2"}
NoProc == "none"

-----------------------------------------------------------------------------
(* Constants of the program *)

PENDING_CREATE == "PENDING_CREATE"
ACTIVE == "ACTIVE"
PENDING_DELETE == "PENDING_DELETE"
ERROR == "ERROR"

COMPACT == "compact"
LARGE == "large"
XLARGE == "xlarge"
QUADLARGE == "quadlarge"
SERVICE_EDGE == "service"
VDR_EDGE == "vdr"

BACKUP_ROUTER_PREFIX == "backup-"
ALLOWED_EDGE_SIZES == {COMPACT, LARGE, XLARGE, QUADLARGE}
ALLOWED_EDGE_TYPES == {SERVICE_EDGE, VDR_EDGE}

MAX_VNIC_NUM == 10
\* the value configured where a specification does not draw it
maximum_tunnels_per_vnic == 2

MAX_TUNNEL_NUM ==
    IF nsxv_maximum_tunnels_per_vnic < 110 /\ nsxv_maximum_tunnels_per_vnic > 0
    THEN nsxv_maximum_tunnels_per_vnic
    ELSE 10

\* Python's None for an edge id, and for a binding.
NoEdge == 0
NoNet == "None"

\* A router id is a prefix and what follows it.  Ids of logical routers are
\* uuids (no prefix); backup ids are BACKUP_ROUTER_PREFIX + _uuid().
RouterId(pfx, n) == [pfx |-> pfx, uid |-> n]
BackupId(n) == RouterId(BACKUP_ROUTER_PREFIX, n)
NoRouter == RouterId("", 0)
NoBinding == [router_id |-> NoRouter, edge_id |-> NoEdge, status |-> "",
              appliance_size |-> "", edge_type |-> ""]

\* router_id LIKE 'backup-%'
LikeBackup(router_id) == router_id.pfx = BACKUP_ROUTER_PREFIX

\* create_lrouter derives the appliance name from the router's name and id;
\* _free_edge_appliance names the pooled appliance by its backup router id.
RouterName(router_id) == [kind |-> "router_name", id |-> router_id]
IdAsName(router_id) == [kind |-> "router_id", id |-> router_id]

-----------------------------------------------------------------------------
(* Binding Store: nsxv_db.py *)

Row(router_id, edge_id, status, appliance_size, edge_type) ==
    [router_id |-> router_id, edge_id |-> edge_id, status |-> status,
     appliance_size |-> appliance_size, edge_type |-> edge_type]

\* router_id is the primary key of nsxv_router_bindings: a second row with the
\* same key is refused (DBDuplicateEntry).
DBDuplicateEntry(rs, router_id) == \E r \in rs : r.router_id = router_id

add_nsxv_router_binding(rs, router_id, vse_id, status, appliance_size, edge_type) ==
    rs \cup {Row(router_id, vse_id, status, appliance_size, edge_type)}

\* faulty variant: without a row of that key the query answers any row
get_binding_any_row(rs, router_id) ==
    IF \E r \in rs : r.router_id = router_id
    THEN CHOOSE r \in rs : r.router_id = router_id
    ELSE IF rs = {} THEN NoBinding ELSE CHOOSE r \in rs : TRUE

get_nsxv_router_binding(rs, router_id) ==
    IF \E r \in rs : r.router_id = router_id
    THEN CHOOSE r \in rs : r.router_id = router_id
    ELSE NoBinding

\* .one() raises NoResultFound when no row has the key
NoResultFound(rs, router_id) == ~ \E r \in rs : r.router_id = router_id

\* faulty variant: the update writes the new row and leaves the old one
update_status_leaves_old_row(rs, router_id, status) ==
    rs \cup {[r EXCEPT !.status = status] : r \in {x \in rs : x.router_id = router_id}}

update_nsxv_router_binding_status(rs, router_id, status) ==
    {IF r.router_id = router_id THEN [r EXCEPT !.status = status] ELSE r : r \in rs}

update_nsxv_router_binding_edge_id(rs, router_id, edge_id) ==
    {IF r.router_id = router_id THEN [r EXCEPT !.edge_id = edge_id] ELSE r : r \in rs}

\* faulty variant: the delete is never flushed
delete_not_flushed(rs, router_id) == rs

delete_nsxv_router_binding(rs, router_id) ==
    IF \E r \in rs : r.router_id = router_id
    THEN rs \ {CHOOSE r \in rs : r.router_id = router_id}
    ELSE rs

\* get_nsxv_router_bindings with filters (IN) and like_filters (LIKE 'backup-%')
get_nsxv_router_bindings(rs, statuses, sizes, types) ==
    {r \in rs : /\ r.status \in statuses
                /\ r.appliance_size \in sizes
                /\ r.edge_type \in types
                /\ LikeBackup(r.router_id)}

AllStatuses == {PENDING_CREATE, ACTIVE, PENDING_DELETE, ERROR}

VnicRow(edge_id, vnic_index, tunnel_index, network_id) ==
    [edge_id |-> edge_id, vnic_index |-> vnic_index,
     tunnel_index |-> tunnel_index, network_id |-> network_id]

\* faulty variant: range(MAX_VNIC_NUM) without the [1:], vnic 0 included
init_edge_vnic_binding_from_zero(vs, edge_id) ==
    vs \cup {VnicRow(edge_id, v, t + 1, NoNet) :
               <<v, t>> \in {vt \in (0..(MAX_VNIC_NUM - 1)) \X ((0 - MAX_TUNNEL_NUM)..((MAX_VNIC_NUM - 1) * MAX_TUNNEL_NUM)) :
                              /\ vt[2] >= (vt[1] - 1) * MAX_TUNNEL_NUM
                              /\ vt[2] < vt[1] * MAX_TUNNEL_NUM}}

init_edge_vnic_binding(vs, edge_id) ==
    vs \cup {VnicRow(edge_id, v, t + 1, NoNet) :
               <<v, t>> \in {vt \in (1..(MAX_VNIC_NUM - 1)) \X (0..((MAX_VNIC_NUM - 1) * MAX_TUNNEL_NUM)) :
                              /\ vt[2] >= (vt[1] - 1) * MAX_TUNNEL_NUM
                              /\ vt[2] < vt[1] * MAX_TUNNEL_NUM}}

clean_edge_vnic_binding(vs, edge_id) == {b \in vs : b.edge_id # edge_id}

\* filter_by(edge_id=edge_id, network_id=network_id)
VnicsOfNetwork(vs, edge_id, network_id) ==
    {b \in vs : b.edge_id = edge_id /\ b.network_id = network_id}

\* get_edge_vnic_bindings_by_edge: the rows of the edge that hold a network
get_edge_vnic_bindings_by_edge(vs, edge_id) ==
    {b \in vs : b.edge_id = edge_id /\ b.network_id # NoNet}

SetNetwork(vs, b, network_id) ==
    (vs \ {b}) \cup {[b EXCEPT !.network_id = network_id]}

\* (edge_id, vnic_index, tunnel_index) is the primary key of
\* nsxv_edge_vnic_bindings: a second row with the same key is refused.
VnicDuplicateEntry(vs, edge_id, vnic_index, tunnel_index) ==
    \E b \in vs : /\ b.edge_id = edge_id
                  /\ b.vnic_index = vnic_index
                  /\ b.tunnel_index = tunnel_index

\* tunnel_index defaults to -1
create_edge_vnic_binding(vs, edge_id, vnic_index, network_id) ==
    vs \cup {VnicRow(edge_id, vnic_index, -1, network_id)}

\* .one(): the caller has seen that exactly one row matches
delete_edge_vnic_binding_by_network(vs, edge_id, network_id) ==
    vs \ VnicsOfNetwork(vs, edge_id, network_id)

\* the free rows of the edge that pass the test of line 204
EligibleVnics(vs, edge_id) ==
    {b \in VnicsOfNetwork(vs, edge_id, NoNet) :
       b.tunnel_index % MAX_TUNNEL_NUM = 1}

\* faulty variant: without eligible row a row is added for the network
allocate_edge_vnic_or_create(vs, edge_id, network_id) ==
    IF EligibleVnics(vs, edge_id) = {}
    THEN {create_edge_vnic_binding(vs, edge_id, 0, network_id)}
    ELSE {SetNetwork(vs, b, network_id) : b \in EligibleVnics(vs, edge_id)}

\* faulty variant: any free row of the edge is taken
allocate_edge_vnic_any_free(vs, edge_id, network_id) ==
    {SetNetwork(vs, b, network_id) : b \in VnicsOfNetwork(vs, edge_id, NoNet)}

\* The stores allocate_edge_vnic can leave.  It takes the first row of the
\* query that passes the test; the query has no ORDER BY, so that row is any
\* of the eligible ones.  The empty set stands for NsxPluginException.
allocate_edge_vnic(vs, edge_id, network_id) ==
    {SetNetwork(vs, b, network_id) : b \in EligibleVnics(vs, edge_id)}

\* The stores allocate_edge_vnic_with_tunnel_index can leave: query.first()
\* over the free rows of the edge, those on the vnic of the metadata network
\* left out.  The empty set stands for NsxPluginException.
allocate_edge_vnic_with_tunnel_index(vs, edge_id, network_id, metadata_net_id) ==
    LET meta == IF metadata_net_id = NoNet
                THEN {}
                ELSE VnicsOfNetwork(vs, edge_id, metadata_net_id)
        free == {b \in VnicsOfNetwork(vs, edge_id, NoNet) :
                   \A m \in meta : b.vnic_index # m.vnic_index}
    IN  {SetNetwork(vs, b, network_id) : b \in free}

VnicsAt(vs, edge_id, vnic_index, tunnel_index) ==
    {b \in vs : /\ b.edge_id = edge_id
                /\ b.vnic_index = vnic_index
                /\ b.tunnel_index = tunnel_index}

\* .one() has answered the row; its network_id is overwritten
allocate_specific_edge_vnic(vs, edge_id, vnic_index, tunnel_index, network_id) ==
    {IF b \in VnicsAt(vs, edge_id, vnic_index, tunnel_index)
     THEN [b EXCEPT !.network_id = network_id]
     ELSE b : b \in vs}

\* faulty variant: the filter on network_id is lost, every row of the edge is freed
free_edge_vnic_of_edge(vs, edge_id, network_id) ==
    {IF b.edge_id = edge_id THEN [b EXCEPT !.network_id = NoNet] ELSE b : b \in vs}

\* .one() has answered the row; its network_id is set to None
free_edge_vnic_by_network(vs, edge_id, network_id) ==
    {IF b \in VnicsOfNetwork(vs, edge_id, network_id)
     THEN [b EXCEPT !.network_id = NoNet]
     ELSE b : b \in vs}

\* what .one() raises over a set of matching rows
OneRaises(matching) ==
    IF matching = {} THEN "NoResultFound"
    ELSE IF Cardinality(matching) > 1 THEN "MultipleResultsFound"
    ELSE "none"

-----------------------------------------------------------------------------
(* LockManager: the named locks other than 'nsx-edge-request' *)

\* str(edge_id), str(router_id): the names the locks are taken by
EdgeLockName(edge_id) == "edge-" \o ToString(edge_id)
RouterLockName(router_id) == router_id.pfx \o ToString(router_id.uid)

Locked(name) == \E l \in locks : l.name = name
HoldsLock(p, name) == [name |-> name, holder |-> p] \in locks
\* leaving the with block, by return or by exception
ReleaseLocks(p) == locks' = {l \in locks : l.holder # p}

-----------------------------------------------------------------------------
(* EdgeManager helpers: edge_utils.py *)

EdgeType(d) == IF d THEN VDR_EDGE ELSE SERVICE_EDGE

\* self.edge_pool_dicts[edge_type].get(appliance_size) is not None
HasPoolRange(conf, edge_type, appliance_size) ==
    appliance_size \in DOMAIN conf[edge_type]

DeleteTask(router_id, edge_id, d) ==
    [router_id |-> router_id, edge_id |-> edge_id, dist |-> d]

DeployTask(router_id, name, appliance_size, d, by) ==
    [router_id |-> router_id, name |-> name, appliance_size |-> appliance_size,
     dist |-> d, edge_id |-> NoEdge, by |-> by]

UpdateEdgeCall(router_id, edge_id, name) ==
    [router_id |-> router_id, edge_id |-> edge_id, name |-> name]

\* faulty variant: the probe answers active for every edge
probe_always_active(alive, edge_id) == TRUE

\* nsxv_manager.get_edge_status(edge_id) == ROUTER_STATUS_ACTIVE
check_edge_active_at_backend(alive, edge_id) == edge_id \in alive

_delete_backup_edges_on_db(rs, bindings) ==
    {IF \E b \in bindings : b.router_id = r.router_id
     THEN [r EXCEPT !.status = PENDING_DELETE]
     ELSE r : r \in rs}

\* faulty variant: the backend delete is never issued
delete_at_backend_not_issued(dt, bindings) == dt

_delete_backup_edges_at_backend(dt, bindings) ==
    dt \cup {DeleteTask(b.router_id, b.edge_id, b.edge_type = VDR_EDGE) : b \in bindings}

\* faulty variant: .first() in place of .all(), one ERROR binding per purge
ErrorBackupBindingsFirstOnly(rs) ==
    LET all == get_nsxv_router_bindings(rs, {ERROR}, ALLOWED_EDGE_SIZES, ALLOWED_EDGE_TYPES)
    IN  IF all = {} THEN {} ELSE {CHOOSE r \in all : TRUE}

ErrorBackupBindings(rs) ==
    get_nsxv_router_bindings(rs, {ERROR}, ALLOWED_EDGE_SIZES, ALLOWED_EDGE_TYPES)

\* faulty variant: the purge issues the deletes and leaves the rows in ERROR
clean_without_db_update(rs) == rs

\* _clean_all_error_edge_bindings: the store and the delete tasks after it
CleanErrorRows(rs) == _delete_backup_edges_on_db(rs, ErrorBackupBindings(rs))
CleanErrorTasks(rs, dt) == _delete_backup_edges_at_backend(dt, ErrorBackupBindings(rs))

\* faulty variant: the status filter lacks ACTIVE
backup_bindings_pending_only(rs, appliance_size, edge_type) ==
    get_nsxv_router_bindings(rs, {PENDING_CREATE}, {appliance_size}, {edge_type})

_get_backup_edge_bindings(rs, appliance_size, edge_type) ==
    get_nsxv_router_bindings(rs, {PENDING_CREATE, ACTIVE}, {appliance_size}, {edge_type})

\* _get_available_router_binding: every result random.choice can lead to.
\* sel is the binding returned (NoBinding for None), dead the bindings handed
\* to _delete_edge on the way.
\* calls lists the _delete_edge calls in order, tried counts the turns of
\* the while loop.
RECURSIVE AvailableOutcomes(_, _)

\* faulty variant: a dead candidate stays in the list for one more turn
AvailableOutcomesRetry(cands, alive) ==
    IF cands = {}
    THEN {[sel |-> NoBinding, dead |-> {}, calls |-> <<>>, tried |-> 0]}
    ELSE UNION {
           IF rb.status = ACTIVE
           THEN IF ~ check_edge_active_at_backend(alive, rb.edge_id)
                THEN {[sel |-> o.sel, dead |-> o.dead \cup {rb},
                       calls |-> <<rb, rb>> \o o.calls, tried |-> o.tried + 2] :
                        o \in AvailableOutcomes(cands \ {rb}, alive)}
                ELSE {[sel |-> rb, dead |-> {}, calls |-> <<>>, tried |-> 1]}
           ELSE {[o EXCEPT !.tried = @ + 1] : o \in AvailableOutcomes(cands \ {rb}, alive)}
           : rb \in cands}

AvailableOutcomes(cands, alive) ==
    IF cands = {}
    THEN {[sel |-> NoBinding, dead |-> {}, calls |-> <<>>, tried |-> 0]}
    ELSE UNION {
           IF rb.status = ACTIVE
           THEN IF ~ check_edge_active_at_backend(alive, rb.edge_id)
                THEN {[sel |-> o.sel, dead |-> o.dead \cup {rb},
                       calls |-> <<rb>> \o o.calls, tried |-> o.tried + 1] :
                        o \in AvailableOutcomes(cands \ {rb}, alive)}
                ELSE {[sel |-> rb, dead |-> {}, calls |-> <<>>, tried |-> 1]}
           ELSE {[o EXCEPT !.tried = @ + 1] : o \in AvailableOutcomes(cands \ {rb}, alive)}
           : rb \in cands}

_get_available_router_binding(rs, alive, appliance_size, edge_type) ==
    AvailableOutcomes(_get_backup_edge_bindings(rs, appliance_size, edge_type), alive)

\* _deploy_backup_edges_on_db: num fresh backup ids (none when num <= 0)
NewBackupIds(uu, num) == {BackupId(n) : n \in (uu + 1)..(uu + num)}

_deploy_backup_edges_on_db(rs, uu, num, appliance_size, edge_type) ==
    rs \cup {Row(id, NoEdge, PENDING_CREATE, appliance_size, edge_type) :
               id \in NewBackupIds(uu, num)}

\* faulty variant: the pool creator is never spawned
pool_creator_not_spawned(dp, router_ids, appliance_size, edge_type) == dp

\* _deploy_backup_edges_at_backend / _pool_creator: one worker deployment per id,
\* named by the id itself
_deploy_backup_edges_at_backend(dp, router_ids, appliance_size, edge_type) ==
    dp \cup {DeployTask(id, IdAsName(id), appliance_size, edge_type = VDR_EDGE, "pool") :
               id \in router_ids}

Max(a, b) == IF a > b THEN a ELSE b

-----------------------------------------------------------------------------
(* NsxVCallbacks: edge_utils.py *)

\* edge_deploy_started_sync: with an edge id the binding gets it, without
\* one the binding of a known router goes to ERROR
edge_deploy_started_rows(rs, router_id, edge_id) ==
    IF edge_id # NoEdge
    THEN update_nsxv_router_binding_edge_id(rs, router_id, edge_id)
    ELSE IF router_id # NoRouter
         THEN update_nsxv_router_binding_status(rs, router_id, ERROR)
         ELSE rs

\* faulty variant: the grid is seeded for distributed edges too
edge_deploy_started_vnics_any_type(vs, edge_id, d) ==
    IF edge_id # NoEdge THEN init_edge_vnic_binding(vs, edge_id) ELSE vs

edge_deploy_started_vnics(vs, edge_id, d) ==
    IF edge_id # NoEdge /\ ~ d THEN init_edge_vnic_binding(vs, edge_id) ELSE vs

\* edge_deploy_result_sync
edge_deploy_result_rows(rs, router_id, deploy_successful) ==
    IF deploy_successful
    THEN update_nsxv_router_binding_status(rs, router_id, ACTIVE)
    ELSE update_nsxv_router_binding_status(rs, router_id, ERROR)

\* faulty variant: the slots are wiped whatever the result
edge_deploy_result_vnics_any_result(vs, edge_id, d, deploy_successful) ==
    IF ~ d /\ edge_id # NoEdge THEN clean_edge_vnic_binding(vs, edge_id) ELSE vs

edge_deploy_result_vnics(vs, edge_id, d, deploy_successful) ==
    IF ~ deploy_successful /\ ~ d /\ edge_id # NoEdge
    THEN clean_edge_vnic_binding(vs, edge_id)
    ELSE vs

\* edge_delete_result
edge_delete_result_rows(rs, router_id) == delete_nsxv_router_binding(rs, router_id)

\* faulty variant: the slots are wiped for distributed edges too
edge_delete_result_vnics_any_type(vs, edge_id, d) == clean_edge_vnic_binding(vs, edge_id)

edge_delete_result_vnics(vs, edge_id, d) ==
    IF ~ d THEN clean_edge_vnic_binding(vs, edge_id) ELSE vs

-----------------------------------------------------------------------------
(* Pool Reconciler: _check_backup_edge_pool, _check_backup_edge_pools *)

Store(rs, uu, dp, dt) ==
    [rows |-> rs, next_uuid |-> uu, deploy_tasks |-> dp, delete_tasks |-> dt]

\* faulty variant: an if in place of the while, one placeholder row at most
RefillOnce(rs, uu, router_ids, minimum_pooled_edges, appliance_size, edge_type) ==
    IF Cardinality(_get_backup_edge_bindings(rs, appliance_size, edge_type))
         < minimum_pooled_edges
    THEN [rows |-> _deploy_backup_edges_on_db(rs, uu, 1, appliance_size, edge_type),
          next_uuid |-> uu + 1, router_ids |-> router_ids \cup NewBackupIds(uu, 1)]
    ELSE [rows |-> rs, next_uuid |-> uu, router_ids |-> router_ids]

\* the while loop of _check_backup_edge_pool: one placeholder row per turn,
\* the pool counted again after each
RECURSIVE RefillLoop(_, _, _, _, _, _)
RefillLoop(rs, uu, router_ids, minimum_pooled_edges, appliance_size, edge_type) ==
    IF Cardinality(_get_backup_edge_bindings(rs, appliance_size, edge_type))
         < minimum_pooled_edges
    THEN RefillLoop(
           _deploy_backup_edges_on_db(rs, uu, 1, appliance_size, edge_type),
           uu + 1, router_ids \cup NewBackupIds(uu, 1),
           minimum_pooled_edges, appliance_size, edge_type)
    ELSE [rows |-> rs, next_uuid |-> uu, router_ids |-> router_ids]

\* faulty variant: the slice takes one binding more
FirstNPlusOne(bindings, n) == {S \in SUBSET bindings : Cardinality(S) = n + 1}

\* backup_router_bindings[:n]: the query has no ORDER BY, the first n rows are
\* any n of them
FirstN(bindings, n) == {S \in SUBSET bindings : Cardinality(S) = n}

\* _check_backup_edge_pool: every store it can leave
_check_backup_edge_pool(st, minimum_pooled_edges, maximum_pooled_edges, appliance_size, edge_type) ==
    LET backup_router_bindings ==
            _get_backup_edge_bindings(st.rows, appliance_size, edge_type)
        num_backup == Cardinality(backup_router_bindings)
    IN  IF num_backup > maximum_pooled_edges
        THEN {Store(_delete_backup_edges_on_db(st.rows, surplus),
                    st.next_uuid,
                    st.deploy_tasks,
                    _delete_backup_edges_at_backend(st.delete_tasks, surplus)) :
                surplus \in FirstN(backup_router_bindings,
                                   num_backup - maximum_pooled_edges)}
        ELSE IF num_backup < minimum_pooled_edges
        THEN LET new == RefillLoop(st.rows, st.next_uuid, {},
                                   minimum_pooled_edges, appliance_size, edge_type)
             IN  {Store(new.rows, new.next_uuid,
                        _deploy_backup_edges_at_backend(
                            st.deploy_tasks, new.router_ids, appliance_size, edge_type),
                        st.delete_tasks)}
        ELSE {st}

MinimumPooled(conf, edge_type, edge_size) ==
    IF HasPoolRange(conf, edge_type, edge_size)
    THEN conf[edge_type][edge_size].minimum_pooled_edges ELSE 0

\* faulty variant: a class without pool range is skipped rather than held at 0
MaximumPooledSkipsUnconfigured(conf, edge_type, edge_size) ==
    IF HasPoolRange(conf, edge_type, edge_size)
    THEN conf[edge_type][edge_size].maximum_pooled_edges
    ELSE Cardinality(ALLOWED_EDGE_SIZES) + MaxPersisted

MaximumPooled(conf, edge_type, edge_size) ==
    IF HasPoolRange(conf, edge_type, edge_size)
    THEN conf[edge_type][edge_size].maximum_pooled_edges ELSE 0

\* the two loops of _check_backup_edge_pools over the classes still to visit
RECURSIVE CheckPoolsLoop(_, _, _)
CheckPoolsLoop(sts, conf, classes) ==
    IF classes = {}
    THEN sts
    ELSE LET c == CHOOSE c \in classes : TRUE
         IN  CheckPoolsLoop(
               UNION {_check_backup_edge_pool(
                        st, MinimumPooled(conf, c[1], c[2]),
                        MaximumPooled(conf, c[1], c[2]), c[2], c[1]) : st \in sts},
               conf, classes \ {c})

_check_backup_edge_pools(st, conf) ==
    CheckPoolsLoop(
      {Store(CleanErrorRows(st.rows), st.next_uuid, st.deploy_tasks,
             CleanErrorTasks(st.rows, st.delete_tasks))},
      conf, ALLOWED_EDGE_TYPES \X ALLOWED_EDGE_SIZES)

-----------------------------------------------------------------------------
(* API workers *)

\* The identifiers and sizes the callers pass in.
RouterIds == {RouterId("", 1), RouterId("", 2)}
RequestSizes == {COMPACT, LARGE}
RequestDist == {FALSE}

IdleFrame ==
    [resource_id |-> NoRouter, appliance_size |-> "", dist |-> FALSE,
     available_router_binding |-> NoBinding, binding |-> NoBinding,
     backup_num |-> 0, backup_router_id |-> NoRouter]

FirstIdle(p) == pc[p] = "idle" /\ (p = "p1" \/ pc["p1"] # "idle")

\* the callers issue one call at a time for a resource id
InFlight(router_id) ==
    \E q \in Procs : pc[q] # "idle" /\ frame[q].resource_id = router_id

Goto(p, label) == pc' = [pc EXCEPT ![p] = label]
\* return, or an exception leaving the call
Return(p) == /\ pc' = [pc EXCEPT ![p] = "idle"]
             /\ frame' = [frame EXCEPT ![p] = IdleFrame]

PoolRange(p) ==
    edge_pool_dicts[EdgeType(frame[p].dist)][frame[p].appliance_size]

\* _allocate_edge_appliance, entry: without a pool range the binding is stored
\* and the edge deployed synchronously; with one the worker asks for the lock.
Allocate(p, resource_id, appliance_size, d) ==
    /\ FirstIdle(p)
    /\ ~ InFlight(resource_id)
    /\ ops < MaxOps
    /\ ops' = ops + 1
    /\ IF ~ HasPoolRange(edge_pool_dicts, EdgeType(d), appliance_size)
       THEN IF DBDuplicateEntry(rows, resource_id)
            THEN /\ Return(p)
                 /\ UNCHANGED <<rows, deploy_tasks>>
            ELSE /\ rows' = add_nsxv_router_binding(
                               rows, resource_id, NoEdge, PENDING_CREATE,
                               appliance_size, EdgeType(d))
                 /\ deploy_tasks' = deploy_tasks \cup
                      {DeployTask(resource_id, RouterName(resource_id),
                                  appliance_size, d, p)}
                 /\ Goto(p, "a_deploy_wait")
                 /\ frame' = [frame EXCEPT ![p] =
                      [IdleFrame EXCEPT !.resource_id = resource_id,
                                        !.appliance_size = appliance_size,
                                        !.dist = d]]
       ELSE /\ Goto(p, "a_request")
            /\ frame' = [frame EXCEPT ![p] =
                 [IdleFrame EXCEPT !.resource_id = resource_id,
                                   !.appliance_size = appliance_size,
                                   !.dist = d]]
            /\ UNCHANGED <<rows, deploy_tasks>>
    /\ UNCHANGED <<edge_vnic_bindings, edge_pool_dicts, nsxv_maximum_tunnels_per_vnic, locks, active_edges, next_edge,
                   next_uuid, delete_tasks, update_edge_calls, pool_lock, last,
                   faults>>

\* with get_lock('nsx-edge-request'): _clean_all_error_edge_bindings, then
\* _get_available_router_binding (dead candidates go to _delete_edge)
AllocSelect(p) ==
    /\ pc[p] = "a_request"
    /\ pool_lock = NoProc
    /\ pool_lock' = p
    /\ LET cleaned == CleanErrorRows(rows)
           tasks == CleanErrorTasks(rows, delete_tasks)
       IN  \E o \in _get_available_router_binding(
                      cleaned, active_edges, frame[p].appliance_size,
                      EdgeType(frame[p].dist)) :
             /\ rows' = _delete_backup_edges_on_db(cleaned, o.dead)
             /\ delete_tasks' = _delete_backup_edges_at_backend(tasks, o.dead)
             /\ frame' = [frame EXCEPT ![p].available_router_binding = o.sel]
    /\ Goto(p, "a_selected")
    /\ UNCHANGED <<edge_vnic_bindings, edge_pool_dicts, nsxv_maximum_tunnels_per_vnic, locks, active_edges, next_edge,
                   next_uuid, deploy_tasks, update_edge_calls, last, ops, faults>>

\* leaving the with block
AllocRelease(p) ==
    /\ pc[p] = "a_selected"
    /\ pool_lock = p
    /\ pool_lock' = NoProc
    /\ Goto(p, IF frame[p].available_router_binding = NoBinding
               THEN "a_add_new" ELSE "a_del_backup")
    /\ UNCHANGED <<rows, edge_vnic_bindings, edge_pool_dicts, nsxv_maximum_tunnels_per_vnic, locks, active_edges,
                   next_edge, next_uuid, deploy_tasks, delete_tasks,
                   update_edge_calls, frame, last, ops, faults>>

\* no available edge: store the binding, deploy synchronously
AllocAddNew(p) ==
    /\ pc[p] = "a_add_new"
    /\ IF DBDuplicateEntry(rows, frame[p].resource_id)
       THEN /\ Return(p)
            /\ UNCHANGED <<rows, deploy_tasks>>
       ELSE /\ rows' = add_nsxv_router_binding(
                          rows, frame[p].resource_id, NoEdge, PENDING_CREATE,
                          frame[p].appliance_size, EdgeType(frame[p].dist))
            /\ deploy_tasks' = deploy_tasks \cup
                 {DeployTask(frame[p].resource_id, RouterName(frame[p].resource_id),
                             frame[p].appliance_size, frame[p].dist, p)}
            /\ Goto(p, "a_deploy_wait")
            /\ UNCHANGED frame
    /\ UNCHANGED <<edge_vnic_bindings, edge_pool_dicts, nsxv_maximum_tunnels_per_vnic, locks, active_edges, next_edge,
                   next_uuid, delete_tasks, update_edge_calls, pool_lock, last,
                   ops, faults>>

\* an edge was selected: delete its backup row
AllocDeleteBackup(p) ==
    /\ pc[p] = "a_del_backup"
    /\ rows' = delete_nsxv_router_binding(
                 rows, frame[p].available_router_binding.router_id)
    /\ Goto(p, "a_add_reused")
    /\ UNCHANGED <<edge_vnic_bindings, edge_pool_dicts, nsxv_maximum_tunnels_per_vnic, locks, active_edges, next_edge,
                   next_uuid, deploy_tasks, delete_tasks, update_edge_calls,
                   pool_lock, frame, last, ops, faults>>

\* ... and store the row of the resource on the selected edge
AllocAddReused(p) ==
    /\ pc[p] = "a_add_reused"
    /\ IF DBDuplicateEntry(rows, frame[p].resource_id)
       THEN /\ Return(p)
            /\ UNCHANGED rows
       ELSE /\ rows' = add_nsxv_router_binding(
                          rows, frame[p].resource_id,
                          frame[p].available_router_binding.edge_id,
                          PENDING_CREATE,
                          frame[p].appliance_size, EdgeType(frame[p].dist))
            /\ Goto(p, "a_rename")
            /\ UNCHANGED frame
    /\ UNCHANGED <<edge_vnic_bindings, edge_pool_dicts, nsxv_maximum_tunnels_per_vnic, locks, active_edges, next_edge,
                   next_uuid, deploy_tasks, delete_tasks, update_edge_calls,
                   pool_lock, last, ops, faults>>

\* with get_lock(edge_id): the fake deploy task's result callback, then the
\* rename at the backend, waited for
AllocRename(p) ==
    /\ pc[p] = "a_rename"
    /\ ~ Locked(EdgeLockName(frame[p].available_router_binding.edge_id))
    /\ IF NoResultFound(rows, frame[p].resource_id)
       THEN /\ Return(p)
            /\ UNCHANGED <<rows, update_edge_calls>>
       ELSE /\ rows' = edge_deploy_result_rows(rows, frame[p].resource_id, TRUE)
            /\ update_edge_calls' = update_edge_calls \cup
                 {UpdateEdgeCall(frame[p].resource_id,
                                 frame[p].available_router_binding.edge_id,
                                 RouterName(frame[p].resource_id))}
            /\ Goto(p, "a_refill_count")
            /\ UNCHANGED frame
    /\ UNCHANGED <<edge_vnic_bindings, edge_pool_dicts, nsxv_maximum_tunnels_per_vnic, locks, active_edges, next_edge,
                   next_uuid, deploy_tasks, delete_tasks, pool_lock, last, ops,
                   faults>>

\* backup_num = len(self._get_backup_edge_bindings(...))
AllocRefillCount(p) ==
    /\ pc[p] = "a_refill_count"
    /\ frame' = [frame EXCEPT ![p].backup_num =
         Cardinality(_get_backup_edge_bindings(
                       rows, frame[p].appliance_size, EdgeType(frame[p].dist)))]
    /\ Goto(p, "a_refill_deploy")
    /\ UNCHANGED <<rows, edge_vnic_bindings, edge_pool_dicts, nsxv_maximum_tunnels_per_vnic, locks, active_edges,
                   next_edge, next_uuid, deploy_tasks, delete_tasks,
                   update_edge_calls, pool_lock, last, ops, faults>>

\* _deploy_backup_edges_on_db(minimum - backup_num), then the pool creator
AllocRefillDeploy(p) ==
    /\ pc[p] = "a_refill_deploy"
    /\ LET num == Max(0, PoolRange(p).minimum_pooled_edges - frame[p].backup_num)
       IN  /\ next_uuid + num <= MaxUuid
           /\ rows' = _deploy_backup_edges_on_db(
                        rows, next_uuid, num, frame[p].appliance_size,
                        EdgeType(frame[p].dist))
           /\ next_uuid' = next_uuid + num
           /\ deploy_tasks' = _deploy_backup_edges_at_backend(
                                deploy_tasks, NewBackupIds(next_uuid, num),
                                frame[p].appliance_size, EdgeType(frame[p].dist))
    /\ Return(p)
    /\ UNCHANGED <<edge_vnic_bindings, edge_pool_dicts, nsxv_maximum_tunnels_per_vnic, locks, active_edges, next_edge,
                   delete_tasks, update_edge_calls, pool_lock, last, ops, faults>>

\* _free_edge_appliance, entry: read the binding; a binding in ERROR, on a dead
\* edge or of a class without pool range is deleted at once
Free(p, router_id) ==
    /\ FirstIdle(p)
    /\ ~ InFlight(router_id)
    /\ ops < MaxOps
    /\ ops' = ops + 1
    /\ LET b == get_nsxv_router_binding(rows, router_id)
       IN  IF b = NoBinding
           THEN /\ Return(p)
                /\ UNCHANGED <<rows, delete_tasks>>
           ELSE IF \/ b.status = ERROR
                   \/ ~ check_edge_active_at_backend(active_edges, b.edge_id)
                   \/ ~ HasPoolRange(edge_pool_dicts, b.edge_type, b.appliance_size)
           THEN /\ rows' = update_nsxv_router_binding_status(
                              rows, router_id, PENDING_DELETE)
                /\ delete_tasks' = delete_tasks \cup
                     {DeleteTask(router_id, b.edge_id, b.edge_type = VDR_EDGE)}
                /\ Return(p)
           ELSE /\ Goto(p, "f_request")
                /\ frame' = [frame EXCEPT ![p] =
                     [IdleFrame EXCEPT !.resource_id = router_id,
                                       !.appliance_size = b.appliance_size,
                                       !.dist = (b.edge_type = VDR_EDGE),
                                       !.binding = b]]
                /\ UNCHANGED <<rows, delete_tasks>>
    /\ UNCHANGED <<edge_vnic_bindings, edge_pool_dicts, nsxv_maximum_tunnels_per_vnic, locks, active_edges, next_edge,
                   next_uuid, deploy_tasks, update_edge_calls, pool_lock, last,
                   faults>>

\* with get_lock('nsx-edge-request'): _clean_all_error_edge_bindings, then the
\* pool is read
FreeCount(p) ==
    /\ pc[p] = "f_request"
    /\ pool_lock = NoProc
    /\ pool_lock' = p
    /\ rows' = CleanErrorRows(rows)
    /\ delete_tasks' = CleanErrorTasks(rows, delete_tasks)
    /\ frame' = [frame EXCEPT ![p].backup_num =
         Cardinality(_get_backup_edge_bindings(
                       CleanErrorRows(rows), frame[p].binding.appliance_size,
                       frame[p].binding.edge_type))]
    /\ Goto(p, "f_counted")
    /\ UNCHANGED <<edge_vnic_bindings, edge_pool_dicts, nsxv_maximum_tunnels_per_vnic, locks, active_edges, next_edge,
                   next_uuid, deploy_tasks, update_edge_calls, last, ops, faults>>

\* leaving the with block; backup_num < maximum_pooled_edges decides
FreeRelease(p) ==
    /\ pc[p] = "f_counted"
    /\ pool_lock = p
    /\ pool_lock' = NoProc
    /\ Goto(p, IF frame[p].backup_num < PoolRange(p).maximum_pooled_edges
               THEN "f_del_binding" ELSE "f_delete_edge")
    /\ UNCHANGED <<rows, edge_vnic_bindings, edge_pool_dicts, nsxv_maximum_tunnels_per_vnic, locks, active_edges,
                   next_edge, next_uuid, deploy_tasks, delete_tasks,
                   update_edge_calls, frame, last, ops, faults>>

\* collect the edge to the pool: delete the router's row
FreeDeleteBinding(p) ==
    /\ pc[p] = "f_del_binding"
    /\ rows' = delete_nsxv_router_binding(rows, frame[p].resource_id)
    /\ Goto(p, "f_add_backup")
    /\ UNCHANGED <<edge_vnic_bindings, edge_pool_dicts, nsxv_maximum_tunnels_per_vnic, locks, active_edges, next_edge,
                   next_uuid, deploy_tasks, delete_tasks, update_edge_calls,
                   pool_lock, frame, last, ops, faults>>

\* faulty variant: the backup row is stored PENDING_CREATE
FreeAddBackupPending(p) ==
    /\ pc[p] = "f_add_backup"
    /\ next_uuid < MaxUuid
    /\ next_uuid' = next_uuid + 1
    /\ rows' = add_nsxv_router_binding(
                 rows, BackupId(next_uuid + 1), frame[p].binding.edge_id,
                 PENDING_CREATE,
                 frame[p].binding.appliance_size, frame[p].binding.edge_type)
    /\ frame' = [frame EXCEPT ![p].backup_router_id = BackupId(next_uuid + 1)]
    /\ Goto(p, "f_rename")
    /\ UNCHANGED <<edge_vnic_bindings, edge_pool_dicts, nsxv_maximum_tunnels_per_vnic, locks, active_edges, next_edge,
                   deploy_tasks, delete_tasks, update_edge_calls, pool_lock, last,
                   ops, faults>>

\* ... and store an ACTIVE row under a fresh backup id on the same edge
FreeAddBackup(p) ==
    /\ pc[p] = "f_add_backup"
    /\ next_uuid < MaxUuid
    /\ next_uuid' = next_uuid + 1
    /\ rows' = add_nsxv_router_binding(
                 rows, BackupId(next_uuid + 1), frame[p].binding.edge_id, ACTIVE,
                 frame[p].binding.appliance_size, frame[p].binding.edge_type)
    /\ frame' = [frame EXCEPT ![p].backup_router_id = BackupId(next_uuid + 1)]
    /\ Goto(p, "f_rename")
    /\ UNCHANGED <<edge_vnic_bindings, edge_pool_dicts, nsxv_maximum_tunnels_per_vnic, locks, active_edges, next_edge,
                   deploy_tasks, delete_tasks, update_edge_calls, pool_lock, last,
                   ops, faults>>

\* the rename at the backend, waited for, then the vnic bindings are refreshed
FreeRename(p) ==
    /\ pc[p] = "f_rename"
    /\ update_edge_calls' = update_edge_calls \cup
         {UpdateEdgeCall(frame[p].backup_router_id, frame[p].binding.edge_id,
                         IdAsName(frame[p].backup_router_id))}
    /\ edge_vnic_bindings' =
         IF ~ frame[p].dist /\ frame[p].binding.edge_id # NoEdge
         THEN init_edge_vnic_binding(
                clean_edge_vnic_binding(edge_vnic_bindings, frame[p].binding.edge_id),
                frame[p].binding.edge_id)
         ELSE edge_vnic_bindings
    /\ Return(p)
    /\ UNCHANGED <<rows, edge_pool_dicts, nsxv_maximum_tunnels_per_vnic, locks, active_edges, next_edge, next_uuid,
                   deploy_tasks, delete_tasks, pool_lock, last, ops, faults>>

\* faulty variant: the status is updated and delete_edge is not called
FreeDeleteEdgeDbOnly(p) ==
    /\ pc[p] = "f_delete_edge"
    /\ IF NoResultFound(rows, frame[p].resource_id)
       THEN UNCHANGED rows
       ELSE rows' = update_nsxv_router_binding_status(
                      rows, frame[p].resource_id, PENDING_DELETE)
    /\ Return(p)
    /\ UNCHANGED <<edge_vnic_bindings, edge_pool_dicts, nsxv_maximum_tunnels_per_vnic, locks, active_edges, next_edge,
                   next_uuid, deploy_tasks, delete_tasks, update_edge_calls,
                   pool_lock, last, ops, faults>>

\* the pool is full: PENDING_DELETE and a backend delete
FreeDeleteEdge(p) ==
    /\ pc[p] = "f_delete_edge"
    /\ IF NoResultFound(rows, frame[p].resource_id)
       THEN UNCHANGED <<rows, delete_tasks>>
       ELSE /\ rows' = update_nsxv_router_binding_status(
                          rows, frame[p].resource_id, PENDING_DELETE)
            /\ delete_tasks' = delete_tasks \cup
                 {DeleteTask(frame[p].resource_id, frame[p].binding.edge_id,
                             frame[p].dist)}
    /\ Return(p)
    /\ UNCHANGED <<edge_vnic_bindings, edge_pool_dicts, nsxv_maximum_tunnels_per_vnic, locks, active_edges, next_edge,
                   next_uuid, deploy_tasks, update_edge_calls, pool_lock, last,
                   ops, faults>>

-----------------------------------------------------------------------------
(* Backend tasks and their callbacks *)

\* what the caller of a synchronous deployment does next
\* faulty variant: the refill follows every successful deploy, pooled or not
AfterDeployAlwaysRefill(t, ok) ==
    IF t.by \in Procs
    THEN IF ok
         THEN /\ Goto(t.by, "a_refill_count")
              /\ UNCHANGED frame
         ELSE Return(t.by)
    ELSE UNCHANGED <<pc, frame>>

AfterDeploy(t, ok) ==
    IF t.by \in Procs
    THEN IF ok /\ HasPoolRange(edge_pool_dicts, EdgeType(t.dist), t.appliance_size)
         THEN /\ Goto(t.by, "a_refill_count")
              /\ UNCHANGED frame
         ELSE Return(t.by)
    ELSE UNCHANGED <<pc, frame>>

\* the backend accepted the deployment and named the edge:
\* edge_deploy_started_sync(edge_id)
DeployStarted(t) ==
    /\ t \in deploy_tasks
    /\ t.edge_id = NoEdge
    /\ next_edge < MaxEdges
    /\ next_edge' = next_edge + 1
    /\ active_edges' = active_edges \cup {next_edge + 1}
    /\ IF NoResultFound(rows, t.router_id)
       THEN /\ deploy_tasks' = deploy_tasks \ {t}
            /\ AfterDeploy(t, FALSE)
            /\ UNCHANGED <<rows, edge_vnic_bindings>>
       ELSE /\ rows' = edge_deploy_started_rows(rows, t.router_id, next_edge + 1)
            /\ edge_vnic_bindings' =
                 edge_deploy_started_vnics(edge_vnic_bindings, next_edge + 1, t.dist)
            /\ deploy_tasks' = (deploy_tasks \ {t}) \cup
                 {[t EXCEPT !.edge_id = next_edge + 1]}
            /\ UNCHANGED <<pc, frame>>
    /\ UNCHANGED <<edge_pool_dicts, nsxv_maximum_tunnels_per_vnic, locks, next_uuid, delete_tasks, update_edge_calls,
                   pool_lock, last, ops, faults>>

\* the backend refused the deployment and named no edge:
\* edge_deploy_started_sync(edge_id=None); the deployment is over
DeployRefused(t) ==
    /\ t \in deploy_tasks
    /\ t.edge_id = NoEdge
    /\ deploy_tasks' = deploy_tasks \ {t}
    /\ IF NoResultFound(rows, t.router_id)
       THEN UNCHANGED rows
       ELSE rows' = edge_deploy_started_rows(rows, t.router_id, NoEdge)
    /\ edge_vnic_bindings' = edge_deploy_started_vnics(edge_vnic_bindings, NoEdge, t.dist)
    /\ AfterDeploy(t, FALSE)
    /\ UNCHANGED <<edge_pool_dicts, nsxv_maximum_tunnels_per_vnic, locks, active_edges,
                   next_edge, next_uuid, delete_tasks, update_edge_calls, pool_lock,
                   last, ops, faults>>

\* the deployment ended: edge_deploy_result_sync.  A deployment the backend
\* refused has no edge id; a failed one leaves no running edge.
DeployResult(t, ok) ==
    /\ t \in deploy_tasks
    /\ ok => t.edge_id # NoEdge
    /\ ~ ok => faults < MaxFaults
    /\ faults' = IF ok THEN faults ELSE faults + 1
    /\ deploy_tasks' = deploy_tasks \ {t}
    /\ active_edges' = IF ok THEN active_edges ELSE active_edges \ {t.edge_id}
    /\ IF NoResultFound(rows, t.router_id)
       THEN /\ AfterDeploy(t, FALSE)
            /\ UNCHANGED <<rows, edge_vnic_bindings>>
       ELSE /\ rows' = edge_deploy_result_rows(rows, t.router_id, ok)
            /\ edge_vnic_bindings' =
                 edge_deploy_result_vnics(edge_vnic_bindings, t.edge_id, t.dist, ok)
            /\ AfterDeploy(t, ok)
    /\ UNCHANGED <<edge_pool_dicts, nsxv_maximum_tunnels_per_vnic, locks, next_edge, next_uuid, delete_tasks,
                   update_edge_calls, pool_lock, last, ops>>

\* a delete task ended: the edge is gone, edge_delete_result
DeleteResult(t) ==
    /\ t \in delete_tasks
    /\ delete_tasks' = delete_tasks \ {t}
    /\ active_edges' = active_edges \ {t.edge_id}
    /\ rows' = edge_delete_result_rows(rows, t.router_id)
    /\ edge_vnic_bindings' = edge_delete_result_vnics(edge_vnic_bindings, t.edge_id, t.dist)
    /\ UNCHANGED <<edge_pool_dicts, nsxv_maximum_tunnels_per_vnic, locks, next_edge, next_uuid, deploy_tasks,
                   update_edge_calls, pool_lock, pc, frame, last, ops, faults>>

\* an edge stops answering ACTIVE to the status probe
EdgeFails(e) ==
    /\ e \in active_edges
    /\ faults < MaxFaults
    /\ faults' = faults + 1
    /\ active_edges' = active_edges \ {e}
    /\ UNCHANGED <<rows, edge_vnic_bindings, edge_pool_dicts, nsxv_maximum_tunnels_per_vnic, locks, next_edge, next_uuid,
                   deploy_tasks, delete_tasks, update_edge_calls, pool_lock, pc,
                   frame, last, ops>>

-----------------------------------------------------------------------------
(* The running service *)

PoolRangeOf(lo, hi) == [minimum_pooled_edges |-> lo, maximum_pooled_edges |-> hi]

\* backup_edge_pool settings the service is started with: one pooled class,
\* service:compact:min:max
ConfOf(lo, hi) ==
    [t \in ALLOWED_EDGE_TYPES |->
       IF t = SERVICE_EDGE
       THEN [s \in {COMPACT} |-> PoolRangeOf(lo, hi)]
       ELSE [s \in {} |-> PoolRangeOf(0, 0)]]

PoolConfs == {ConfOf(0, 1), ConfOf(1, 1)}

NoLast == [op |-> "none"]

RECURSIVE InitVnics(_, _)
InitVnics(vs, edge_ids) ==
    IF edge_ids = {}
    THEN vs
    ELSE LET e == CHOOSE e \in edge_ids : TRUE
         IN  InitVnics(init_edge_vnic_binding(vs, e), edge_ids \ {e})

\* What an earlier run of the service left in the store and at the backend:
\* nothing, or two routers, each ACTIVE on a compact service edge of its own.
PersistedRouters ==
    {{},
     {Row(RouterId("", 1), 1, ACTIVE, COMPACT, SERVICE_EDGE),
      Row(RouterId("", 2), 2, ACTIVE, COMPACT, SERVICE_EDGE)}}

\* EdgeManager.__init__ on the persisted store: _check_backup_edge_pools
Init ==
    \E conf \in PoolConfs, persisted \in PersistedRouters :
      \E st \in _check_backup_edge_pools(Store(persisted, 0, {}, {}), conf) :
        /\ nsxv_maximum_tunnels_per_vnic = maximum_tunnels_per_vnic
        /\ locks = {}
        /\ edge_pool_dicts = conf
        /\ rows = st.rows
        /\ next_uuid = st.next_uuid
        /\ deploy_tasks = st.deploy_tasks
        /\ delete_tasks = st.delete_tasks
        /\ active_edges = {r.edge_id : r \in persisted}
        /\ edge_vnic_bindings = InitVnics({}, {r.edge_id : r \in persisted})
        /\ next_edge = Cardinality(persisted)
        /\ update_edge_calls = {}
        /\ pool_lock = NoProc
        /\ pc = [p \in Procs |-> "idle"]
        /\ frame = [p \in Procs |-> IdleFrame]
        /\ last = NoLast
        /\ ops = 0
        /\ faults = 0

Next ==
    \/ \E p \in Procs, r \in RouterIds, s \in RequestSizes, d \in RequestDist :
         Allocate(p, r, s, d)
    \/ \E p \in Procs : AllocSelect(p)
    \/ \E p \in Procs : AllocRelease(p)
    \/ \E p \in Procs : AllocAddNew(p)
    \/ \E p \in Procs : AllocDeleteBackup(p)
    \/ \E p \in Procs : AllocAddReused(p)
    \/ \E p \in Procs : AllocRename(p)
    \/ \E p \in Procs : AllocRefillCount(p)
    \/ \E p \in Procs : AllocRefillDeploy(p)
    \/ \E p \in Procs, r \in RouterIds : Free(p, r)
    \/ \E p \in Procs : FreeCount(p)
    \/ \E p \in Procs : FreeRelease(p)
    \/ \E p \in Procs : FreeDeleteBinding(p)
    \/ \E p \in Procs : FreeAddBackup(p)
    \/ \E p \in Procs : FreeRename(p)
    \/ \E p \in Procs : FreeDeleteEdge(p)
    \/ \E t \in deploy_tasks : DeployStarted(t)
    \/ \E t \in deploy_tasks, ok \in BOOLEAN : DeployResult(t, ok)
    \/ \E t \in delete_tasks : DeleteResult(t)
    \/ \E e \in active_edges : EdgeFails(e)

Spec == Init /\ [][Next]_vars

-----------------------------------------------------------------------------
(* The pool reconciler over a store left by an earlier run *)

PoolClasses == {<<SERVICE_EDGE, LARGE>>, <<VDR_EDGE, LARGE>>}

\* A backup row an earlier run left: its edge is known unless the row is still
\* PENDING_CREATE.  The ids lie outside those the running service draws.
PersistedEdge(i) == MaxEdges + i
PersistedBackup(i, status, class) ==
    Row(BackupId(MaxUuid + i),
        IF status = PENDING_CREATE THEN NoEdge ELSE PersistedEdge(i),
        status, class[2], class[1])

PersistedChoices(i) ==
    {{}} \cup {{PersistedBackup(i, st, c)} : st \in AllStatuses, c \in PoolClasses}

RECURSIVE PersistedPools(_)
PersistedPools(i) ==
    IF i = 0
    THEN {{Row(RouterId("", 1), PersistedEdge(0), ACTIVE, LARGE, SERVICE_EDGE)}}
    ELSE {rs \cup one : rs \in PersistedPools(i - 1), one \in PersistedChoices(i)}

PoolSpecConfs ==
    {[t \in ALLOWED_EDGE_TYPES |->
        IF t = SERVICE_EDGE
        THEN [s \in {LARGE} |-> PoolRangeOf(1, 1)]
        ELSE [s \in {} |-> PoolRangeOf(0, 0)]]}

InitPool ==
    \E conf \in PoolSpecConfs, persisted \in PersistedPools(MaxPersisted) :
      /\ nsxv_maximum_tunnels_per_vnic = maximum_tunnels_per_vnic
      /\ locks = {}
      /\ edge_pool_dicts = conf
      /\ rows = persisted
      /\ next_uuid = 0
      /\ deploy_tasks = {}
      /\ delete_tasks = {}
      /\ active_edges = {r.edge_id : r \in persisted} \ {NoEdge}
      /\ edge_vnic_bindings =
           InitVnics({}, {r.edge_id : r \in {x \in persisted : x.edge_type # VDR_EDGE}}
                           \ {NoEdge})
      /\ next_edge = 0
      /\ update_edge_calls = {}
      /\ pool_lock = NoProc
      /\ pc = [p \in Procs |-> "idle"]
      /\ frame = [p \in Procs |-> IdleFrame]
      /\ last = NoLast
      /\ ops = 0
      /\ faults = 0

\* _check_backup_edge_pool(minimum, maximum, appliance_size, edge_type)
CheckBackupEdgePool(lo, hi, appliance_size, edge_type) ==
    /\ last = NoLast
    /\ \E st \in _check_backup_edge_pool(
                   Store(rows, next_uuid, deploy_tasks, delete_tasks),
                   lo, hi, appliance_size, edge_type) :
         /\ st.next_uuid <= MaxUuid
         /\ rows' = st.rows
         /\ next_uuid' = st.next_uuid
         /\ deploy_tasks' = st.deploy_tasks
         /\ delete_tasks' = st.delete_tasks
    /\ last' = [op |-> "_check_backup_edge_pool",
                minimum_pooled_edges |-> lo, maximum_pooled_edges |-> hi,
                appliance_size |-> appliance_size, edge_type |-> edge_type,
                backup_num |-> Cardinality(_get_backup_edge_bindings(
                                             rows, appliance_size, edge_type))]
    /\ UNCHANGED <<edge_vnic_bindings, edge_pool_dicts, nsxv_maximum_tunnels_per_vnic, locks, active_edges, next_edge,
                   update_edge_calls, pool_lock, pc, frame, ops, faults>>

\* _clean_all_error_edge_bindings(), run once and then once more
CleanAllErrorEdgeBindings ==
    /\ \/ last = NoLast
       \/ last.op = "_clean_all_error_edge_bindings" /\ last.runs = 1
    /\ rows' = CleanErrorRows(rows)
    /\ delete_tasks' = CleanErrorTasks(rows, delete_tasks)
    /\ last' = [op |-> "_clean_all_error_edge_bindings",
                runs |-> IF last = NoLast THEN 1 ELSE 2,
                error_router_bindings |-> ErrorBackupBindings(rows)]
    /\ UNCHANGED <<edge_vnic_bindings, edge_pool_dicts, nsxv_maximum_tunnels_per_vnic, locks, active_edges, next_edge,
                   next_uuid, deploy_tasks, update_edge_calls, pool_lock, pc,
                   frame, ops, faults>>

\* _check_backup_edge_pools(): the ERROR purge, then every class
CheckBackupEdgePools ==
    /\ last = NoLast
    /\ \E st \in _check_backup_edge_pools(
                   Store(rows, next_uuid, deploy_tasks, delete_tasks),
                   edge_pool_dicts) :
         /\ st.next_uuid <= MaxUuid
         /\ rows' = st.rows
         /\ next_uuid' = st.next_uuid
         /\ deploy_tasks' = st.deploy_tasks
         /\ delete_tasks' = st.delete_tasks
    /\ last' = [op |-> "_check_backup_edge_pools"]
    /\ UNCHANGED <<edge_vnic_bindings, edge_pool_dicts, nsxv_maximum_tunnels_per_vnic, locks, active_edges, next_edge,
                   update_edge_calls, pool_lock, pc, frame, ops, faults>>

NextPool ==
    \/ \E lo \in 0..MaxPooled, hi \in 0..MaxPooled, c \in PoolClasses :
         CheckBackupEdgePool(lo, hi, c[2], c[1])
    \/ CheckBackupEdgePools
    \/ CleanAllErrorEdgeBindings
    \/ \E t \in deploy_tasks : DeployStarted(t)
    \/ \E t \in deploy_tasks, ok \in BOOLEAN : DeployResult(t, ok)
    \/ \E t \in delete_tasks : DeleteResult(t)

SpecPool == InitPool /\ [][NextPool]_vars

-----------------------------------------------------------------------------
(* The pool reconciler of a starting process while the worker deployments of
   another process on the same binding store are still running *)

\* the worker deployments of the other process: one for every backup row that
\* is still PENDING_CREATE
PeerDeployments(rs) ==
    _deploy_backup_edges_at_backend(
      {}, {r.router_id : r \in {x \in rs : LikeBackup(x.router_id) /\ x.status = PENDING_CREATE /\ x.edge_type = SERVICE_EDGE}},
      LARGE, SERVICE_EDGE)
    \cup
    _deploy_backup_edges_at_backend(
      {}, {r.router_id : r \in {x \in rs : LikeBackup(x.router_id) /\ x.status = PENDING_CREATE /\ x.edge_type = VDR_EDGE}},
      LARGE, VDR_EDGE)

InitPeer ==
    \E conf \in PoolSpecConfs, persisted \in PersistedPools(MaxPersisted) :
      /\ nsxv_maximum_tunnels_per_vnic = maximum_tunnels_per_vnic
      /\ locks = {}
      /\ edge_pool_dicts = conf
      /\ rows = persisted
      /\ next_uuid = 0
      /\ deploy_tasks = PeerDeployments(persisted)
      /\ delete_tasks = {}
      /\ active_edges = {r.edge_id : r \in persisted} \ {NoEdge}
      /\ edge_vnic_bindings =
           InitVnics({}, {r.edge_id : r \in {x \in persisted : x.edge_type # VDR_EDGE}}
                           \ {NoEdge})
      /\ next_edge = 0
      /\ update_edge_calls = {}
      /\ pool_lock = NoProc
      /\ pc = [p \in Procs |-> "idle"]
      /\ frame = [p \in Procs |-> IdleFrame]
      /\ last = NoLast
      /\ ops = 0
      /\ faults = 0

NextPeer ==
    \/ CheckBackupEdgePools
    \/ \E t \in deploy_tasks : DeployStarted(t)
    \/ \E t \in deploy_tasks, ok \in BOOLEAN : DeployResult(t, ok)
    \/ \E t \in delete_tasks : DeleteResult(t)

SpecPeer == InitPeer /\ [][NextPeer]_vars

-----------------------------------------------------------------------------
(* The vnic bindings of a service edge and of a distributed edge *)

MaxVnicOps == 2

\* total slots of the grid of one edge
GridSize == (MAX_VNIC_NUM - 1) * MAX_TUNNEL_NUM

ServiceEdgeId == 1
VdrEdgeId == 2
VnicEdges == {ServiceEdgeId, VdrEdgeId}

\* network ids are uuids: Net(i) is a network not attached before, Resident(i)
\* the i-th network attached before
Net(i) == "net-" \o ToString(i)
Resident(i) == "res-" \o ToString(i)
RequestNets == {Net(1), Resident(1)}
MetadataNets == {NoNet, Resident(1)}
SpecificSlots == {<<1, 1>>, <<1, 2>>, <<MAX_VNIC_NUM, 1>>}

\* router binding -> dist, as the callers read it
IsDist(edge_id) ==
    \E r \in rows : r.edge_id = edge_id /\ r.edge_type = VDR_EDGE

\* The grid of a service edge after init_edge_vnic_binding and k attachments
\* by allocate_edge_vnic_with_tunnel_index, the query answering in key order.
AttachedGrid(edge_id, k) ==
    {IF b.tunnel_index <= k
     THEN [b EXCEPT !.network_id = Resident(b.tunnel_index)]
     ELSE b : b \in init_edge_vnic_binding({}, edge_id)}

\* The rows of a distributed edge after j calls of add_vdr_internal_interface
AttachedVdr(edge_id, j) ==
    {VnicRow(edge_id, i, -1, Resident(i)) : i \in 1..j}

\* attachments made before, on the service edge and on the distributed edge
Attached == {<<0, 0>>, <<GridSize - 1, GridSize>>, <<GridSize, GridSize>>}

VnicLast(op, edge_id, network_id, raised) ==
    [op |-> op, edge_id |-> edge_id, network_id |-> network_id, raised |-> raised]

VnicCall ==
    /\ ops < MaxVnicOps
    /\ ops' = ops + 1
    /\ UNCHANGED <<rows, edge_pool_dicts, nsxv_maximum_tunnels_per_vnic, locks, active_edges, next_edge, next_uuid,
                   deploy_tasks, delete_tasks, update_edge_calls, pool_lock,
                   pc, frame, faults>>

\* _update_internal_interface, create_plr: allocate_edge_vnic for a network
\* that has no binding on the edge
AllocateEdgeVnic(edge_id, network_id) ==
    /\ VnicCall
    /\ VnicsOfNetwork(edge_vnic_bindings, edge_id, network_id) = {}
    /\ LET outcomes == allocate_edge_vnic(edge_vnic_bindings, edge_id, network_id)
       IN  IF outcomes = {}
           THEN /\ UNCHANGED edge_vnic_bindings
                /\ last' = VnicLast("allocate_edge_vnic", edge_id, network_id,
                                    "NsxPluginException")
           ELSE /\ edge_vnic_bindings' \in outcomes
                /\ last' = VnicLast("allocate_edge_vnic", edge_id, network_id,
                                    "none")

\* reuse_existing_dhcp_edge, allocate_new_dhcp_edge
AllocateEdgeVnicWithTunnelIndex(edge_id, network_id, metadata_net_id) ==
    /\ VnicCall
    /\ VnicsOfNetwork(edge_vnic_bindings, edge_id, network_id) = {}
    /\ LET outcomes == allocate_edge_vnic_with_tunnel_index(
                         edge_vnic_bindings, edge_id, network_id, metadata_net_id)
       IN  IF outcomes = {}
           THEN /\ UNCHANGED edge_vnic_bindings
                /\ last' = VnicLast("allocate_edge_vnic_with_tunnel_index",
                                    edge_id, network_id, "NsxPluginException")
           ELSE /\ edge_vnic_bindings' \in outcomes
                /\ last' = VnicLast("allocate_edge_vnic_with_tunnel_index",
                                    edge_id, network_id, "none")

AllocateSpecificEdgeVnic(edge_id, vnic_index, tunnel_index, network_id) ==
    /\ VnicCall
    /\ LET raised == OneRaises(VnicsAt(edge_vnic_bindings, edge_id, vnic_index,
                                       tunnel_index))
       IN  /\ edge_vnic_bindings' =
                IF raised = "none"
                THEN allocate_specific_edge_vnic(edge_vnic_bindings, edge_id,
                                                 vnic_index, tunnel_index,
                                                 network_id)
                ELSE edge_vnic_bindings
           /\ last' = VnicLast("allocate_specific_edge_vnic", edge_id,
                               network_id, raised)

FreeEdgeVnicByNetwork(edge_id, network_id) ==
    /\ VnicCall
    /\ LET raised == OneRaises(VnicsOfNetwork(edge_vnic_bindings, edge_id,
                                              network_id))
       IN  /\ edge_vnic_bindings' =
                IF raised = "none"
                THEN free_edge_vnic_by_network(edge_vnic_bindings, edge_id,
                                               network_id)
                ELSE edge_vnic_bindings
           /\ last' = VnicLast("free_edge_vnic_by_network", edge_id, network_id,
                               raised)

\* _free_edge_appliance, "Refresh edge_vnic_bindings"
RefreshEdgeVnicBindings(edge_id) ==
    /\ VnicCall
    /\ ~ IsDist(edge_id)
    /\ edge_vnic_bindings' =
         init_edge_vnic_binding(
           clean_edge_vnic_binding(edge_vnic_bindings, edge_id), edge_id)
    /\ last' = VnicLast("init_edge_vnic_binding", edge_id, NoNet, "none")

\* the index the backend answers for a new interface of a distributed
\* edge: one it does not use on that edge
NewVdrIndex(vs, edge_id) ==
    CHOOSE i \in 1..(Cardinality(vs) + 1) :
      /\ ~ VnicDuplicateEntry(vs, edge_id, i, -1)
      /\ \A j \in 1..(i - 1) : VnicDuplicateEntry(vs, edge_id, j, -1)

\* _add_vdr_internal_interface
AddVdrInternalInterface(edge_id, network_id) ==
    /\ VnicCall
    /\ IsDist(edge_id)
    /\ IF VnicsOfNetwork(edge_vnic_bindings, edge_id, network_id) = {}
       THEN /\ edge_vnic_bindings' =
                 create_edge_vnic_binding(
                   edge_vnic_bindings, edge_id,
                   NewVdrIndex(edge_vnic_bindings, edge_id), network_id)
            /\ last' = VnicLast("create_edge_vnic_binding", edge_id,
                                network_id, "none")
       ELSE /\ UNCHANGED edge_vnic_bindings
            /\ last' = VnicLast("create_edge_vnic_binding", edge_id,
                                network_id, "BadRequest")

\* delete_interface
DeleteInterface(edge_id, network_id) ==
    /\ VnicCall
    /\ IF VnicsOfNetwork(edge_vnic_bindings, edge_id, network_id) = {}
       THEN /\ UNCHANGED edge_vnic_bindings
            /\ last' = VnicLast("delete_interface", edge_id, network_id, "none")
       ELSE IF ~ IsDist(edge_id)
       THEN /\ edge_vnic_bindings' =
                 free_edge_vnic_by_network(edge_vnic_bindings, edge_id,
                                           network_id)
            /\ last' = VnicLast("delete_interface", edge_id, network_id, "none")
       ELSE /\ edge_vnic_bindings' =
                 delete_edge_vnic_binding_by_network(edge_vnic_bindings,
                                                     edge_id, network_id)
            /\ last' = VnicLast("delete_interface", edge_id, network_id, "none")

InitVnic ==
    /\ nsxv_maximum_tunnels_per_vnic = maximum_tunnels_per_vnic
    /\ locks = {}
    /\ \E a \in Attached :
         /\ rows = {Row(RouterId("", 1), ServiceEdgeId, ACTIVE, COMPACT, SERVICE_EDGE),
                    Row(RouterId("", 2), VdrEdgeId, ACTIVE, COMPACT, VDR_EDGE)}
         /\ edge_vnic_bindings =
              AttachedGrid(ServiceEdgeId, a[1]) \cup AttachedVdr(VdrEdgeId, a[2])
         /\ edge_pool_dicts = ConfOf(0, 0)
         /\ active_edges = VnicEdges
         /\ next_edge = Cardinality(VnicEdges)
         /\ next_uuid = 0
         /\ deploy_tasks = {}
         /\ delete_tasks = {}
         /\ update_edge_calls = {}
         /\ pool_lock = NoProc
         /\ pc = [p \in Procs |-> "idle"]
         /\ frame = [p \in Procs |-> IdleFrame]
         /\ last = NoLast
         /\ ops = 0
         /\ faults = 0

NextVnic ==
    \/ \E e \in VnicEdges, n \in RequestNets : AllocateEdgeVnic(e, n)
    \/ \E e \in VnicEdges, n \in RequestNets, m \in MetadataNets :
         AllocateEdgeVnicWithTunnelIndex(e, n, m)
    \/ \E e \in VnicEdges, s \in SpecificSlots, n \in RequestNets :
         AllocateSpecificEdgeVnic(e, s[1], s[2], n)
    \/ \E e \in VnicEdges, n \in RequestNets : FreeEdgeVnicByNetwork(e, n)
    \/ \E e \in VnicEdges : RefreshEdgeVnicBindings(e)
    \/ \E e \in VnicEdges, n \in RequestNets : AddVdrInternalInterface(e, n)
    \/ \E e \in VnicEdges, n \in RequestNets : DeleteInterface(e, n)

SpecVnic == InitVnic /\ [][NextVnic]_vars

-----------------------------------------------------------------------------
(* The vnic grid under every configured maximum_tunnels_per_vnic *)

\* values of cfg.CONF.nsxv.maximum_tunnels_per_vnic, an IntOpt
ConfiguredTunnels == {-1, 0, 1, 2, 109, 110, 111}

\* the store after the deploy of one service edge and one distributed edge
InitTunnel ==
    /\ nsxv_maximum_tunnels_per_vnic \in ConfiguredTunnels
    /\ locks = {}
    /\ rows = {Row(RouterId("", 1), ServiceEdgeId, ACTIVE, COMPACT, SERVICE_EDGE),
               Row(RouterId("", 2), VdrEdgeId, ACTIVE, COMPACT, VDR_EDGE)}
    /\ edge_vnic_bindings = init_edge_vnic_binding({}, ServiceEdgeId)
    /\ edge_pool_dicts = ConfOf(0, 0)
    /\ active_edges = VnicEdges
    /\ next_edge = Cardinality(VnicEdges)
    /\ next_uuid = 0
    /\ deploy_tasks = {}
    /\ delete_tasks = {}
    /\ update_edge_calls = {}
    /\ pool_lock = NoProc
    /\ pc = [p \in Procs |-> "idle"]
    /\ frame = [p \in Procs |-> IdleFrame]
    /\ last = NoLast
    /\ ops = 0
    /\ faults = 0

NextTunnel ==
    \/ \E e \in VnicEdges, n \in RequestNets : AllocateEdgeVnic(e, n)
    \/ \E e \in VnicEdges, n \in RequestNets : FreeEdgeVnicByNetwork(e, n)
    \/ \E e \in VnicEdges : RefreshEdgeVnicBindings(e)

SpecTunnel == InitTunnel /\ [][NextTunnel]_vars

-----------------------------------------------------------------------------
(* Interface operations beside allocate and free, under the LockManager *)

MaxLockOps == 3

\* routers 1 and 2 are bound to one shared appliance, router 3 is alone on
\* its appliance, router 4 is not created yet
SharedEdgeId == 1
ExclusiveEdgeId == 2
SharedRouters == {RouterId("", 1), RouterId("", 2)}
ExclusiveRouter == RouterId("", 3)
NewRouter == RouterId("", 4)
InterfaceRouters == SharedRouters \cup {NewRouter}

NoVnic == VnicRow(NoEdge, 0, 0, NoNet)

InterfaceFrame(op, router_id, network_id) ==
    [resource_id |-> router_id, appliance_size |-> "", dist |-> FALSE,
     available_router_binding |-> NoBinding, binding |-> NoBinding,
     backup_num |-> 0, backup_router_id |-> NoRouter,
     op |-> op, network_id |-> network_id, edge_vnic_binding |-> NoVnic]

\* an interface operation enters its with blocks: get_lock(name) for every
\* name, str(router_id) among them
InterfaceCall(p, op, router_id, network_id, names) ==
    /\ FirstIdle(p)
    /\ ~ InFlight(router_id)
    /\ ops < MaxLockOps
    /\ \A n \in names : ~ Locked(n)
    /\ ops' = ops + 1
    /\ locks' = locks \cup {[name |-> n, holder |-> p] : n \in names}
    /\ pc' = [pc EXCEPT ![p] = "i_locked"]
    /\ frame' = [frame EXCEPT ![p] = InterfaceFrame(op, router_id, network_id)]
    /\ UNCHANGED <<rows, edge_vnic_bindings, edge_pool_dicts,
                   nsxv_maximum_tunnels_per_vnic, active_edges, next_edge,
                   next_uuid, deploy_tasks, delete_tasks, update_edge_calls,
                   pool_lock, last, faults>>

UpdateInternalInterface(p, router_id, int_net_id) ==
    InterfaceCall(p, "update_internal_interface", router_id, int_net_id,
                  {RouterLockName(router_id)})

UpdateExternalInterface(p, router_id, ext_net_id) ==
    InterfaceCall(p, "update_external_interface", router_id, ext_net_id,
                  {RouterLockName(router_id)})

DeleteInterfaceOfRouter(p, router_id, network_id) ==
    InterfaceCall(p, "delete_interface", router_id, network_id,
                  {RouterLockName(router_id)})

\* RouterExclusiveDriver.add_router_interface: the driver takes the lock of
\* the router's edge around update_internal_interface
AddRouterInterface(p, router_id, network_id) ==
    /\ ~ NoResultFound(rows, router_id)
    /\ InterfaceCall(p, "update_internal_interface", router_id, network_id,
                     {EdgeLockName(get_nsxv_router_binding(rows, router_id).edge_id),
                      RouterLockName(router_id)})

\* the operation leaves its with block before the backend is called
InterfaceLeave(p) ==
    /\ ReleaseLocks(p)
    /\ Return(p)
    /\ UNCHANGED edge_vnic_bindings

\* the operation goes on to the backend call with the vnic binding it read
InterfaceGoOn(p, binding, b) ==
    /\ frame' = [frame EXCEPT ![p].binding = binding, ![p].edge_vnic_binding = b]
    /\ Goto(p, "i_backend")
    /\ UNCHANGED locks

\* _update_internal_interface, _update_external_interface, _delete_interface
\* up to the backend call: the router binding and the vnic binding are read,
\* and a vnic is allocated for a network that has none
InterfaceRead(p) ==
    /\ pc[p] = "i_locked"
    /\ LET binding == get_nsxv_router_binding(rows, frame[p].resource_id)
           found == VnicsOfNetwork(edge_vnic_bindings, binding.edge_id,
                                   frame[p].network_id)
           outcomes == allocate_edge_vnic(edge_vnic_bindings, binding.edge_id,
                                          frame[p].network_id)
       IN  IF binding = NoBinding
           THEN InterfaceLeave(p)
           ELSE IF frame[p].op = "update_external_interface"
           THEN /\ InterfaceGoOn(p, binding, NoVnic)
                /\ UNCHANGED edge_vnic_bindings
           ELSE IF found # {}
           THEN /\ \E b \in found : InterfaceGoOn(p, binding, b)
                /\ UNCHANGED edge_vnic_bindings
           ELSE IF frame[p].op = "delete_interface" \/ outcomes = {}
           THEN InterfaceLeave(p)
           ELSE \E vs \in outcomes :
                  /\ edge_vnic_bindings' = vs
                  /\ \E b \in VnicsOfNetwork(vs, binding.edge_id, frame[p].network_id) :
                       InterfaceGoOn(p, binding, b)
    /\ UNCHANGED <<rows, edge_pool_dicts, nsxv_maximum_tunnels_per_vnic,
                   active_edges, next_edge, next_uuid, deploy_tasks, delete_tasks,
                   update_edge_calls, pool_lock, last, ops, faults>>

\* the backend call (update_interface; delete_interface, waited for) has
\* answered; delete_interface frees the vnic by network; the with block ends
InterfaceWrite(p) ==
    /\ pc[p] = "i_backend"
    /\ edge_vnic_bindings' =
         IF /\ frame[p].op = "delete_interface"
            /\ OneRaises(VnicsOfNetwork(edge_vnic_bindings, frame[p].binding.edge_id,
                                        frame[p].network_id)) = "none"
         THEN free_edge_vnic_by_network(edge_vnic_bindings, frame[p].binding.edge_id,
                                        frame[p].network_id)
         ELSE edge_vnic_bindings
    /\ ReleaseLocks(p)
    /\ Return(p)
    /\ UNCHANGED <<rows, edge_pool_dicts, nsxv_maximum_tunnels_per_vnic,
                   active_edges, next_edge, next_uuid, deploy_tasks, delete_tasks,
                   update_edge_calls, pool_lock, last, ops, faults>>

\* the pool of the running service: empty, or full with one backup edge
PooledEdges ==
    {{}, {PersistedBackup(1, ACTIVE, <<SERVICE_EDGE, COMPACT>>)}}

\* the service runs: the exclusive router has one network attached
InitLock ==
  \E pooled \in PooledEdges :
    /\ nsxv_maximum_tunnels_per_vnic = maximum_tunnels_per_vnic
    /\ locks = {}
    /\ edge_pool_dicts = ConfOf(0, 1)
    /\ rows = {Row(r, SharedEdgeId, ACTIVE, COMPACT, SERVICE_EDGE) : r \in SharedRouters}
                \cup {Row(ExclusiveRouter, ExclusiveEdgeId, ACTIVE, COMPACT, SERVICE_EDGE)}
                \cup pooled
    /\ next_uuid = 0
    /\ deploy_tasks = {}
    /\ delete_tasks = {}
    /\ active_edges = {SharedEdgeId, ExclusiveEdgeId} \cup {r.edge_id : r \in pooled}
    /\ edge_vnic_bindings =
         InitVnics({}, {SharedEdgeId} \cup {r.edge_id : r \in pooled})
           \cup AttachedGrid(ExclusiveEdgeId, 1)
    /\ next_edge = 2
    /\ update_edge_calls = {}
    /\ pool_lock = NoProc
    /\ pc = [p \in Procs |-> "idle"]
    /\ frame = [p \in Procs |-> IdleFrame]
    /\ last = NoLast
    /\ ops = 0
    /\ faults = 0

NextLock ==
    \/ \E p \in Procs : Allocate(p, NewRouter, COMPACT, FALSE)
    \/ \E p \in Procs : AllocSelect(p)
    \/ \E p \in Procs : AllocRelease(p)
    \/ \E p \in Procs : AllocAddNew(p)
    \/ \E p \in Procs : AllocDeleteBackup(p)
    \/ \E p \in Procs : AllocAddReused(p)
    \/ \E p \in Procs : AllocRename(p)
    \/ \E p \in Procs : AllocRefillCount(p)
    \/ \E p \in Procs : AllocRefillDeploy(p)
    \/ \E p \in Procs : Free(p, ExclusiveRouter)
    \/ \E p \in Procs : FreeCount(p)
    \/ \E p \in Procs : FreeRelease(p)
    \/ \E p \in Procs : FreeDeleteBinding(p)
    \/ \E p \in Procs : FreeAddBackup(p)
    \/ \E p \in Procs : FreeRename(p)
    \/ \E p \in Procs : FreeDeleteEdge(p)
    \/ \E t \in deploy_tasks : DeployStarted(t)
    \/ \E t \in deploy_tasks, ok \in BOOLEAN : DeployResult(t, ok)
    \/ \E t \in delete_tasks : DeleteResult(t)
    \/ \E p \in Procs, r \in InterfaceRouters : UpdateInternalInterface(p, r, Net(1))
    \/ \E p \in Procs, r \in InterfaceRouters : UpdateExternalInterface(p, r, Net(2))
    \/ \E p \in Procs, r \in InterfaceRouters : DeleteInterfaceOfRouter(p, r, Net(1))
    \/ \E p \in Procs, r \in InterfaceRouters : AddRouterInterface(p, r, Net(1))
    \/ \E p \in Procs : InterfaceRead(p)
    \/ \E p \in Procs : InterfaceWrite(p)

SpecLock == InitLock /\ [][NextLock]_vars

-----------------------------------------------------------------------------
(* The DHCP edge a network is attached to: _get_available_edges,
   _get_random_available_edge, reuse_existing_dhcp_edge, and the backup edge
   _get_available_router_binding selects *)

MaxEdgeOps == 3

DHCP_EDGE_PREFIX == "dhcp-"
\* (DHCP_EDGE_PREFIX + network_id)[:36] of the network Net(n)
DhcpId(n) == RouterId(DHCP_EDGE_PREFIX, n)

DhcpNets == {1, 2}
DhcpEdgeIds == {1, 2}

\* faulty variant: an edge is conflicting from one free slot less
available_edges_one_less(rs, vs, vdr_dhcp_edges, conflicting_nets) ==
    LET all_dhcp_edges == {r \in rs : r.router_id.pfx = DHCP_EDGE_PREFIX /\ r.status = ACTIVE}
        full == {e \in {r.edge_id : r \in all_dhcp_edges} :
                   GridSize - Cardinality(get_edge_vnic_bindings_by_edge(vs, e))
                     < MAX_TUNNEL_NUM - 1}
        conflict_edge_ids ==
            full \cup {r.edge_id : r \in {x \in all_dhcp_edges :
                         /\ x.router_id \in {DhcpId(n) : n \in conflicting_nets}
                         /\ x.edge_id # NoEdge}}
    IN  [conflict_edge_ids |-> conflict_edge_ids,
         available_edge_ids |->
           ({r.edge_id : r \in all_dhcp_edges} \ conflict_edge_ids) \ vdr_dhcp_edges]

\* _get_available_edges: the edges of the ACTIVE dhcp bindings, conflicting
\* when at most MAX_TUNNEL_NUM - 1 slots are free or a conflicting network is
\* served there, available otherwise unless a distributed router's dhcp edge
_get_available_edges(rs, vs, vdr_dhcp_edges, conflicting_nets) ==
    LET all_dhcp_edges == {r \in rs : r.router_id.pfx = DHCP_EDGE_PREFIX /\ r.status = ACTIVE}
        full == {e \in {r.edge_id : r \in all_dhcp_edges} :
                   GridSize - Cardinality(get_edge_vnic_bindings_by_edge(vs, e))
                     <= MAX_TUNNEL_NUM - 1}
        conflict_edge_ids ==
            full \cup {r.edge_id : r \in {x \in all_dhcp_edges :
                         /\ x.router_id \in {DhcpId(n) : n \in conflicting_nets}
                         /\ x.edge_id # NoEdge}}
    IN  [conflict_edge_ids |-> conflict_edge_ids,
         available_edge_ids |->
           ({r.edge_id : r \in all_dhcp_edges} \ conflict_edge_ids) \ vdr_dhcp_edges]

\* _get_random_available_edge: every result random.choice can lead to; tried
\* counts the turns of the while loop
RECURSIVE _get_random_available_edge(_, _)
_get_random_available_edge(available_edge_ids, alive) ==
    IF available_edge_ids = {}
    THEN {[new_id |-> NoEdge, tried |-> 0]}
    ELSE UNION {
           IF ~ check_edge_active_at_backend(alive, new_id)
           THEN {[o EXCEPT !.tried = @ + 1] :
                   o \in _get_random_available_edge(available_edge_ids \ {new_id}, alive)}
           ELSE {[new_id |-> new_id, tried |-> 1]}
           : new_id \in available_edge_ids}

\* the grid of a dhcp edge with the slots of free_slots free and a network on
\* every other slot; Resident(1), the metadata network where there is one,
\* sits on the first slot of vnic 1
SlotGrid(edge_id, free_slots) ==
    {IF b.tunnel_index \in free_slots
     THEN b
     ELSE [b EXCEPT !.network_id = Resident(b.tunnel_index)] :
       b \in init_edge_vnic_binding({}, edge_id)}

\* backup bindings of the dhcp class in the store
EdgeBackups ==
    {{}} \cup {{PersistedBackup(1, st, <<SERVICE_EDGE, COMPACT>>)} : st \in {PENDING_CREATE, ACTIVE}}
         \cup {{PersistedBackup(1, ACTIVE, <<SERVICE_EDGE, COMPACT>>),
                PersistedBackup(2, st, <<SERVICE_EDGE, COMPACT>>)} : st \in {PENDING_CREATE, ACTIVE}}

\* network 1 has its dhcp service on edge 1, network 2 none yet or on edge 2.
\* Either the slots of edge 1 vary and every edge runs, or the grids are as
\* seeded and the edges that run vary.
InitEdges ==
    /\ nsxv_maximum_tunnels_per_vnic \in {1, 2, 3}
    /\ locks = {}
    /\ \E second \in {{}, {Row(DhcpId(2), 2, ACTIVE, COMPACT, SERVICE_EDGE)}} :
       \E backups \in EdgeBackups :
         /\ rows = {Row(DhcpId(1), 1, ACTIVE, COMPACT, SERVICE_EDGE)} \cup second \cup backups
         /\ \/ /\ backups = {}
               /\ active_edges = DhcpEdgeIds
               /\ \E free_slots \in SUBSET (1..(2 * MAX_TUNNEL_NUM)) :
                    edge_vnic_bindings =
                      SlotGrid(1, free_slots) \cup init_edge_vnic_binding({}, 2)
            \/ /\ active_edges \in SUBSET ((DhcpEdgeIds \cup {r.edge_id : r \in backups}) \ {NoEdge})
               /\ edge_vnic_bindings =
                    InitVnics({}, (DhcpEdgeIds \cup {r.edge_id : r \in backups}) \ {NoEdge})
    /\ edge_pool_dicts = ConfOf(0, 1)
    /\ next_edge = Cardinality(DhcpEdgeIds)
    /\ next_uuid = 0
    /\ deploy_tasks = {}
    /\ delete_tasks = {}
    /\ update_edge_calls = {}
    /\ pool_lock = NoProc
    /\ pc = [p \in Procs |-> "idle"]
    /\ frame = [p \in Procs |-> IdleFrame]
    /\ last = NoLast
    /\ ops = 0
    /\ faults = 0

EdgeCall ==
    /\ ops < MaxEdgeOps
    /\ ops' = ops + 1
    /\ UNCHANGED <<edge_pool_dicts, nsxv_maximum_tunnels_per_vnic, locks, active_edges, next_edge, next_uuid, deploy_tasks, update_edge_calls, pool_lock, pc, frame, faults>>

\* create_dhcp_edge_service, no binding yet: _get_used_edges
GetAvailableEdges(vdr_dhcp_edges, conflicting_nets) ==
    /\ EdgeCall
    /\ last' = [op |-> "_get_available_edges",
                used |-> _get_available_edges(rows, edge_vnic_bindings,
                                              vdr_dhcp_edges, conflicting_nets)]
    /\ UNCHANGED <<rows, edge_vnic_bindings, delete_tasks>>

\* ... if available_edge_ids: _get_random_available_edge
GetRandomAvailableEdge ==
    /\ last.op = "_get_available_edges"
    /\ last.used.available_edge_ids # {}
    /\ EdgeCall
    /\ \E o \in _get_random_available_edge(last.used.available_edge_ids, active_edges) :
         last' = [op |-> "_get_random_available_edge",
                  available_edge_ids |-> last.used.available_edge_ids,
                  new_id |-> o.new_id, tried |-> o.tried]
    /\ UNCHANGED <<rows, edge_vnic_bindings, delete_tasks>>

\* ... if new_id: reuse_existing_dhcp_edge
ReuseExistingDhcpEdge(n, metadata_net_id) ==
    /\ last.op = "_get_random_available_edge"
    /\ last.new_id # NoEdge
    /\ EdgeCall
    /\ UNCHANGED delete_tasks
    /\ IF DBDuplicateEntry(rows, DhcpId(n))
       THEN /\ last' = VnicLast("reuse_existing_dhcp_edge", last.new_id, Net(n), "DBDuplicateEntry")
            /\ UNCHANGED <<rows, edge_vnic_bindings>>
       ELSE /\ rows' = add_nsxv_router_binding(rows, DhcpId(n), last.new_id, ACTIVE,
                                               COMPACT, SERVICE_EDGE)
            /\ LET outcomes == allocate_edge_vnic_with_tunnel_index(
                                 edge_vnic_bindings, last.new_id, Net(n), metadata_net_id)
               IN  IF outcomes = {}
                   THEN /\ UNCHANGED edge_vnic_bindings
                        /\ last' = VnicLast("reuse_existing_dhcp_edge", last.new_id,
                                            Net(n), "NsxPluginException")
                   ELSE /\ edge_vnic_bindings' \in outcomes
                        /\ last' = VnicLast("reuse_existing_dhcp_edge", last.new_id,
                                            Net(n), "none")

\* _get_available_router_binding with the _delete_edge of each dead candidate
GetAvailableRouterBinding(appliance_size, edge_type) ==
    /\ EdgeCall
    /\ UNCHANGED edge_vnic_bindings
    /\ \E o \in _get_available_router_binding(rows, active_edges, appliance_size, edge_type) :
         /\ rows' = _delete_backup_edges_on_db(rows, o.dead)
         /\ delete_tasks' = _delete_backup_edges_at_backend(delete_tasks, o.dead)
         /\ last' = [op |-> "_get_available_router_binding",
                     sel |-> o.sel, calls |-> o.calls, tried |-> o.tried]

NextEdges ==
    \/ \E vdr \in {{}, {2}}, nets \in SUBSET DhcpNets : GetAvailableEdges(vdr, nets)
    \/ GetRandomAvailableEdge
    \/ \E n \in DhcpNets, m \in MetadataNets : ReuseExistingDhcpEdge(n, m)
    \/ \E c \in {<<SERVICE_EDGE, COMPACT>>, <<SERVICE_EDGE, LARGE>>} : GetAvailableRouterBinding(c[2], c[1])

SpecEdges == InitEdges /\ [][NextEdges]_vars

-----------------------------------------------------------------------------
(* The DHCP service of a network: create_dhcp_edge_service,
   update_dhcp_edge_service, delete_dhcp_edge_service, create_dhcp_bindings,
   with the calls into the store each makes taken in one step between two
   lock boundaries *)

MaxDhcpOps == 2

\* SERVICE_SIZE_MAPPING['dhcp']
DhcpSize == COMPACT

\* _mark_router_bindings_status_error: every binding of the edge that is not
\* in ERROR yet goes to ERROR
_mark_router_bindings_status_error(rs, edge_id) ==
    {IF r.edge_id = edge_id /\ r.status # ERROR
     THEN [r EXCEPT !.status = ERROR]
     ELSE r : r \in rs}

\* what a call changes: the two tables, the backend deletes and renames
\* issued, the uuids drawn
DhcpStore(rs, vs, dt, uu, uc) ==
    [rows |-> rs, vnics |-> vs, delete_tasks |-> dt, next_uuid |-> uu,
     update_edge_calls |-> uc]

\* _free_edge_appliance from entry to return
_free_edge_appliance(st, router_id) ==
    LET binding == get_nsxv_router_binding(st.rows, router_id)
        d == binding.edge_type = VDR_EDGE
        cleaned == CleanErrorRows(st.rows)
        tasks == CleanErrorTasks(st.rows, st.delete_tasks)
        backup_num == Cardinality(_get_backup_edge_bindings(
                         cleaned, binding.appliance_size, binding.edge_type))
        backup_router_id == BackupId(st.next_uuid + 1)
    IN  IF binding = NoBinding
        THEN st
        ELSE IF \/ binding.status = ERROR
                \/ ~ check_edge_active_at_backend(active_edges, binding.edge_id)
                \/ ~ HasPoolRange(edge_pool_dicts, binding.edge_type, binding.appliance_size)
        THEN [st EXCEPT
                !.rows = update_nsxv_router_binding_status(@, router_id, PENDING_DELETE),
                !.delete_tasks = @ \cup {DeleteTask(router_id, binding.edge_id, d)}]
        ELSE IF backup_num < edge_pool_dicts[binding.edge_type][binding.appliance_size].maximum_pooled_edges
        THEN DhcpStore(
               add_nsxv_router_binding(
                 delete_nsxv_router_binding(cleaned, router_id),
                 backup_router_id, binding.edge_id, ACTIVE,
                 binding.appliance_size, binding.edge_type),
               IF ~ d /\ binding.edge_id # NoEdge
               THEN init_edge_vnic_binding(
                      clean_edge_vnic_binding(st.vnics, binding.edge_id), binding.edge_id)
               ELSE st.vnics,
               tasks,
               st.next_uuid + 1,
               st.update_edge_calls \cup
                 {UpdateEdgeCall(backup_router_id, binding.edge_id, IdAsName(backup_router_id))})
        ELSE [st EXCEPT
                !.rows = update_nsxv_router_binding_status(cleaned, router_id, PENDING_DELETE),
                !.delete_tasks = tasks \cup {DeleteTask(router_id, binding.edge_id, d)}]

\* _delete_dhcp_router_binding: with another dhcp router on the edge only the
\* binding goes, otherwise the appliance is freed
_delete_dhcp_router_binding(st, n, edge_id) ==
    IF \E r \in st.rows : /\ r.router_id.pfx = DHCP_EDGE_PREFIX
                          /\ r.router_id # DhcpId(n)
                          /\ r.edge_id = edge_id
    THEN [st EXCEPT !.rows = delete_nsxv_router_binding(@, DhcpId(n))]
    ELSE _free_edge_appliance(st, DhcpId(n))

\* _delete_dhcp_internal_interface: rejected stands for VcnsApiException out
\* of the backend calls; it is logged, the bindings are marked, and the call
\* goes on to _delete_dhcp_router_binding
_delete_dhcp_internal_interface(st, edge_id, n, rejected) ==
    _delete_dhcp_router_binding(
      IF rejected
      THEN [st EXCEPT !.rows = _mark_router_bindings_status_error(@, edge_id)]
      ELSE st,
      n, edge_id)

\* remove_network_from_dhcp_edge: rejected_config stands for VcnsApiException
\* out of update_dhcp_service_config, rejected_vnic for the one out of
\* _delete_dhcp_internal_interface
remove_network_from_dhcp_edge(st, n, edge_id, rejected_config, rejected_vnic) ==
    IF VnicsOfNetwork(st.vnics, edge_id, Net(n)) = {}
    THEN _delete_dhcp_router_binding(st, n, edge_id)
    ELSE LET freed == [st EXCEPT !.vnics = free_edge_vnic_by_network(@, edge_id, Net(n))]
             marked == IF rejected_config
                       THEN [freed EXCEPT !.rows = _mark_router_bindings_status_error(@, edge_id)]
                       ELSE freed
         IN  _delete_dhcp_internal_interface(marked, edge_id, n, rejected_vnic)

PoolLockName == "nsx-edge-pool"

DhcpFrame(n, binding) ==
    [resource_id |-> DhcpId(n), n |-> n, binding |-> binding,
     conflict_edge_ids |-> {}, available_edge_ids |-> {}, new_id |-> NoEdge,
     edge_id |-> NoEdge]

DhcpLast(op, n, edge_id, rejected, raised) ==
    [op |-> op, n |-> n, edge_id |-> edge_id, rejected |-> rejected, raised |-> raised]

DhcpNow == DhcpStore(rows, edge_vnic_bindings, delete_tasks, next_uuid, update_edge_calls)

DhcpApply(st) ==
    /\ st.next_uuid <= MaxUuid
    /\ rows' = st.rows
    /\ edge_vnic_bindings' = st.vnics
    /\ delete_tasks' = st.delete_tasks
    /\ next_uuid' = st.next_uuid
    /\ update_edge_calls' = st.update_edge_calls

\* the backend rejects a call (VcnsApiException)
Rejection(rejected) ==
    /\ rejected => faults < MaxFaults
    /\ faults' = IF rejected THEN faults + 1 ELSE faults

DhcpCall(p, n) ==
    /\ FirstIdle(p)
    /\ ~ InFlight(DhcpId(n))
    /\ ops < MaxDhcpOps
    /\ ops' = ops + 1

\* create_dhcp_edge_service, entry: the binding of the network is read
CreateDhcpEdgeService(p, n) ==
    /\ DhcpCall(p, n)
    /\ frame' = [frame EXCEPT ![p] = DhcpFrame(n, get_nsxv_router_binding(rows, DhcpId(n)))]
    /\ Goto(p, "c_pool")
    /\ UNCHANGED <<rows, edge_vnic_bindings, edge_pool_dicts, nsxv_maximum_tunnels_per_vnic,
                   locks, active_edges, next_edge, next_uuid, deploy_tasks, delete_tasks,
                   update_edge_calls, pool_lock, last, faults>>

\* with get_lock('nsx-edge-pool'): _get_used_edges; without a binding (case 2)
\* _get_random_available_edge follows, with one (case 1) the worker asks for
\* the lock of the edge
CreateUsedEdges(p, conflicting_nets) ==
    /\ pc[p] = "c_pool"
    /\ ~ Locked(PoolLockName)
    /\ LET used == _get_available_edges(rows, edge_vnic_bindings, {}, conflicting_nets)
       IN  IF frame[p].binding # NoBinding
           THEN /\ frame' = [frame EXCEPT ![p].conflict_edge_ids = used.conflict_edge_ids,
                                          ![p].available_edge_ids = used.available_edge_ids,
                                          ![p].edge_id = frame[p].binding.edge_id]
                /\ locks' = locks \cup {[name |-> PoolLockName, holder |-> p]}
                /\ Goto(p, "c_edge")
           ELSE \E o \in _get_random_available_edge(used.available_edge_ids, active_edges) :
                  /\ frame' = [frame EXCEPT ![p].conflict_edge_ids = used.conflict_edge_ids,
                                            ![p].available_edge_ids = used.available_edge_ids,
                                            ![p].new_id = o.new_id]
                  /\ IF o.new_id # NoEdge
                     THEN /\ locks' = locks \cup {[name |-> PoolLockName, holder |-> p]}
                          /\ Goto(p, "c_reuse")
                     ELSE /\ UNCHANGED locks
                          /\ Goto(p, "c_new")
    /\ UNCHANGED <<rows, edge_vnic_bindings, edge_pool_dicts, nsxv_maximum_tunnels_per_vnic,
                   active_edges, next_edge, next_uuid, deploy_tasks, delete_tasks,
                   update_edge_calls, pool_lock, last, ops, faults>>

\* case 1, with get_lock(str(edge_id)): an edge in conflict or a binding in
\* ERROR has the network removed from the edge and another edge selected
CreateOnEdge(p, rejected_config, rejected_vnic) ==
    /\ pc[p] = "c_edge"
    /\ ~ Locked(EdgeLockName(frame[p].edge_id))
    /\ pool_lock = NoProc
    /\ IF frame[p].edge_id \in frame[p].conflict_edge_ids \/ frame[p].binding.status = ERROR
       THEN /\ Rejection(rejected_config \/ rejected_vnic)
            /\ rejected_config => VnicsOfNetwork(edge_vnic_bindings, frame[p].edge_id, Net(frame[p].n)) # {}
            /\ rejected_vnic => VnicsOfNetwork(edge_vnic_bindings, frame[p].edge_id, Net(frame[p].n)) # {}
            /\ DhcpApply(remove_network_from_dhcp_edge(
                           DhcpNow, frame[p].n, frame[p].edge_id, rejected_config, rejected_vnic))
            /\ last' = DhcpLast("remove_network_from_dhcp_edge", frame[p].n, frame[p].edge_id,
                                rejected_config \/ rejected_vnic, FALSE)
            /\ \E o \in _get_random_available_edge(frame[p].available_edge_ids, active_edges) :
                 /\ frame' = [frame EXCEPT ![p].new_id = o.new_id]
                 /\ IF o.new_id # NoEdge
                    THEN /\ locks' = locks \cup {[name |-> EdgeLockName(frame[p].edge_id), holder |-> p]}
                         /\ Goto(p, "c_reuse")
                    ELSE /\ ReleaseLocks(p)
                         /\ Goto(p, "c_new")
       ELSE /\ ~ rejected_config /\ ~ rejected_vnic
            /\ ReleaseLocks(p)
            /\ Return(p)
            /\ UNCHANGED <<rows, edge_vnic_bindings, delete_tasks, next_uuid,
                           update_edge_calls, last, faults>>
    /\ UNCHANGED <<edge_pool_dicts, nsxv_maximum_tunnels_per_vnic, active_edges, next_edge,
                   deploy_tasks, pool_lock, ops>>

\* reuse_existing_dhcp_edge(new_id), then the with blocks are left
CreateReuse(p, metadata_net_id) ==
    /\ pc[p] = "c_reuse"
    /\ ReleaseLocks(p)
    /\ Return(p)
    /\ IF DBDuplicateEntry(rows, frame[p].resource_id)
       THEN /\ last' = DhcpLast("reuse_existing_dhcp_edge", frame[p].n, frame[p].new_id,
                                FALSE, TRUE)
            /\ UNCHANGED <<rows, edge_vnic_bindings>>
       ELSE /\ rows' = add_nsxv_router_binding(rows, frame[p].resource_id, frame[p].new_id,
                                               ACTIVE, DhcpSize, SERVICE_EDGE)
            /\ LET outcomes == allocate_edge_vnic_with_tunnel_index(
                                 edge_vnic_bindings, frame[p].new_id, Net(frame[p].n),
                                 metadata_net_id)
               IN  IF outcomes = {}
                   THEN /\ UNCHANGED edge_vnic_bindings
                        /\ last' = DhcpLast("reuse_existing_dhcp_edge", frame[p].n,
                                            frame[p].new_id, FALSE, TRUE)
                   ELSE /\ edge_vnic_bindings' \in outcomes
                        /\ last' = DhcpLast("reuse_existing_dhcp_edge", frame[p].n,
                                            frame[p].new_id, FALSE, FALSE)
    /\ UNCHANGED <<edge_pool_dicts, nsxv_maximum_tunnels_per_vnic, active_edges, next_edge,
                   next_uuid, deploy_tasks, delete_tasks, update_edge_calls, pool_lock,
                   ops, faults>>

\* allocate_new_dhcp_edge: _allocate_dhcp_edge_appliance from entry to return,
\* the deployment of a new edge being waited for (ok: it completed)
CreateNew(p, ok) ==
    /\ pc[p] = "c_new"
    /\ pool_lock = NoProc
    /\ LET resource_id == frame[p].resource_id
           cleaned == CleanErrorRows(rows)
           tasks == CleanErrorTasks(rows, delete_tasks)
       IN  \E o \in _get_available_router_binding(cleaned, active_edges, DhcpSize, SERVICE_EDGE) :
             LET selected == _delete_backup_edges_on_db(cleaned, o.dead)
                 stored == IF o.sel = NoBinding
                           THEN edge_deploy_result_rows(
                                  edge_deploy_started_rows(
                                    add_nsxv_router_binding(selected, resource_id, NoEdge,
                                                            PENDING_CREATE, DhcpSize, SERVICE_EDGE),
                                    resource_id, next_edge + 1),
                                  resource_id, ok)
                           ELSE edge_deploy_result_rows(
                                  add_nsxv_router_binding(
                                    delete_nsxv_router_binding(selected, o.sel.router_id),
                                    resource_id, o.sel.edge_id, PENDING_CREATE,
                                    DhcpSize, SERVICE_EDGE),
                                  resource_id, TRUE)
                 num == Max(0, edge_pool_dicts[SERVICE_EDGE][DhcpSize].minimum_pooled_edges
                                 - Cardinality(_get_backup_edge_bindings(stored, DhcpSize, SERVICE_EDGE)))
             IN  /\ delete_tasks' = _delete_backup_edges_at_backend(tasks, o.dead)
                 /\ IF DBDuplicateEntry(selected, resource_id)
                    THEN /\ ok
                         /\ rows' = IF o.sel = NoBinding
                                    THEN selected
                                    ELSE delete_nsxv_router_binding(selected, o.sel.router_id)
                         /\ last' = DhcpLast("allocate_new_dhcp_edge", frame[p].n, NoEdge, FALSE, TRUE)
                         /\ Return(p)
                         /\ UNCHANGED <<edge_vnic_bindings, active_edges, next_edge, next_uuid,
                                        deploy_tasks, update_edge_calls, faults>>
                    ELSE IF o.sel = NoBinding
                    THEN /\ next_edge < MaxEdges
                         /\ next_edge' = next_edge + 1
                         /\ Rejection(~ ok)
                         /\ active_edges' = IF ok THEN active_edges \cup {next_edge + 1}
                                            ELSE active_edges
                         /\ edge_vnic_bindings' =
                              edge_deploy_result_vnics(
                                edge_deploy_started_vnics(edge_vnic_bindings, next_edge + 1, FALSE),
                                next_edge + 1, FALSE, ok)
                         /\ UNCHANGED update_edge_calls
                         /\ IF ok
                            THEN /\ next_uuid + num <= MaxUuid
                                 /\ rows' = _deploy_backup_edges_on_db(stored, next_uuid, num,
                                                                       DhcpSize, SERVICE_EDGE)
                                 /\ next_uuid' = next_uuid + num
                                 /\ deploy_tasks' = _deploy_backup_edges_at_backend(
                                                      deploy_tasks, NewBackupIds(next_uuid, num),
                                                      DhcpSize, SERVICE_EDGE)
                                 /\ Goto(p, "c_new_vnic")
                                 /\ UNCHANGED <<frame, last>>
                            ELSE /\ rows' = stored
                                 /\ last' = DhcpLast("allocate_new_dhcp_edge", frame[p].n,
                                                     next_edge + 1, FALSE, TRUE)
                                 /\ Return(p)
                                 /\ UNCHANGED <<next_uuid, deploy_tasks>>
                    ELSE /\ ok
                         /\ ~ Locked(EdgeLockName(o.sel.edge_id))
                         /\ next_uuid + num <= MaxUuid
                         /\ rows' = _deploy_backup_edges_on_db(stored, next_uuid, num,
                                                               DhcpSize, SERVICE_EDGE)
                         /\ next_uuid' = next_uuid + num
                         /\ deploy_tasks' = _deploy_backup_edges_at_backend(
                                              deploy_tasks, NewBackupIds(next_uuid, num),
                                              DhcpSize, SERVICE_EDGE)
                         /\ update_edge_calls' = update_edge_calls \cup
                              {UpdateEdgeCall(resource_id, o.sel.edge_id, RouterName(resource_id))}
                         /\ Goto(p, "c_new_vnic")
                         /\ UNCHANGED <<edge_vnic_bindings, active_edges, next_edge, frame,
                                        last, faults>>
    /\ UNCHANGED <<edge_pool_dicts, nsxv_maximum_tunnels_per_vnic, locks, pool_lock, ops>>

\* ... then with get_lock('nsx-edge-pool'): the binding is read again and a
\* slot of its edge taken for the network
CreateNewVnic(p, metadata_net_id) ==
    /\ pc[p] = "c_new_vnic"
    /\ ~ Locked(PoolLockName)
    /\ Return(p)
    /\ LET new_edge == get_nsxv_router_binding(rows, frame[p].resource_id)
           outcomes == allocate_edge_vnic_with_tunnel_index(
                         edge_vnic_bindings, new_edge.edge_id, Net(frame[p].n), metadata_net_id)
       IN  IF new_edge = NoBinding \/ outcomes = {}
           THEN /\ UNCHANGED edge_vnic_bindings
                /\ last' = DhcpLast("allocate_new_dhcp_edge", frame[p].n, new_edge.edge_id,
                                    FALSE, TRUE)
           ELSE /\ edge_vnic_bindings' \in outcomes
                /\ last' = DhcpLast("allocate_new_dhcp_edge", frame[p].n, new_edge.edge_id,
                                    FALSE, FALSE)
    /\ UNCHANGED <<rows, edge_pool_dicts, nsxv_maximum_tunnels_per_vnic, locks, active_edges,
                   next_edge, next_uuid, deploy_tasks, delete_tasks, update_edge_calls,
                   pool_lock, ops, faults>>

\* delete_dhcp_edge_service, entry: with a binding and a slot of the network
\* on its edge the slot is freed and the worker asks for the lock of the edge
DeleteDhcpEdgeService(p, n) ==
    /\ DhcpCall(p, n)
    /\ LET edge_binding == get_nsxv_router_binding(rows, DhcpId(n))
       IN  IF edge_binding # NoBinding
              /\ VnicsOfNetwork(edge_vnic_bindings, edge_binding.edge_id, Net(n)) # {}
           THEN /\ edge_vnic_bindings' =
                     free_edge_vnic_by_network(edge_vnic_bindings, edge_binding.edge_id, Net(n))
                /\ frame' = [frame EXCEPT ![p] =
                     [DhcpFrame(n, edge_binding) EXCEPT !.edge_id = edge_binding.edge_id]]
                /\ Goto(p, "d_edge")
                /\ UNCHANGED last
           ELSE /\ last' = DhcpLast("delete_dhcp_edge_service", n, edge_binding.edge_id,
                                    FALSE, FALSE)
                /\ UNCHANGED <<edge_vnic_bindings, pc, frame>>
    /\ UNCHANGED <<rows, edge_pool_dicts, nsxv_maximum_tunnels_per_vnic, locks, active_edges,
                   next_edge, next_uuid, deploy_tasks, delete_tasks, update_edge_calls,
                   pool_lock, faults>>

\* with get_lock(str(edge_id)): _delete_dhcp_internal_interface
DeleteOnEdge(p, rejected) ==
    /\ pc[p] = "d_edge"
    /\ ~ Locked(EdgeLockName(frame[p].edge_id))
    /\ pool_lock = NoProc
    /\ Rejection(rejected)
    /\ DhcpApply(_delete_dhcp_internal_interface(DhcpNow, frame[p].edge_id, frame[p].n, rejected))
    /\ last' = DhcpLast("_delete_dhcp_internal_interface", frame[p].n, frame[p].edge_id,
                        rejected, FALSE)
    /\ Return(p)
    /\ UNCHANGED <<edge_pool_dicts, nsxv_maximum_tunnels_per_vnic, locks, active_edges,
                   next_edge, deploy_tasks, pool_lock, ops>>

\* update_dhcp_edge_service: the reads and the block under the lock of the
\* edge; without a binding edge_binding['edge_id'] raises TypeError
UpdateDhcpEdgeService(p, n, rejected) ==
    /\ DhcpCall(p, n)
    /\ Rejection(rejected)
    /\ LET edge_binding == get_nsxv_router_binding(rows, DhcpId(n))
       IN  IF edge_binding = NoBinding
           THEN /\ ~ rejected
                /\ last' = DhcpLast("update_dhcp_edge_service", n, NoEdge, FALSE, TRUE)
                /\ UNCHANGED rows
           ELSE IF VnicsOfNetwork(edge_vnic_bindings, edge_binding.edge_id, Net(n)) = {}
           THEN /\ ~ rejected
                /\ last' = DhcpLast("update_dhcp_edge_service", n, edge_binding.edge_id,
                                    FALSE, FALSE)
                /\ UNCHANGED rows
           ELSE /\ ~ Locked(EdgeLockName(edge_binding.edge_id))
                /\ rows' = IF rejected
                           THEN _mark_router_bindings_status_error(rows, edge_binding.edge_id)
                           ELSE rows
                /\ last' = DhcpLast("update_dhcp_edge_service", n, edge_binding.edge_id,
                                    rejected, rejected)
    /\ UNCHANGED <<edge_vnic_bindings, edge_pool_dicts, nsxv_maximum_tunnels_per_vnic, locks,
                   active_edges, next_edge, next_uuid, deploy_tasks, delete_tasks,
                   update_edge_calls, pool_lock, pc, frame>>

\* get_dhcp_edge_id: the edge of the network's binding, None without one
get_dhcp_edge_id(rs, n) == get_nsxv_router_binding(rs, DhcpId(n)).edge_id

\* create_dhcp_bindings for a port that is still there
CreateDhcpBindings(p, n, rejected) ==
    /\ DhcpCall(p, n)
    /\ Rejection(rejected)
    /\ LET edge_id == get_dhcp_edge_id(rows, n)
       IN  IF edge_id = NoEdge
           THEN /\ ~ rejected
                /\ last' = DhcpLast("create_dhcp_bindings", n, NoEdge, FALSE, FALSE)
                /\ UNCHANGED rows
           ELSE /\ ~ Locked(EdgeLockName(edge_id))
                /\ rows' = IF rejected
                           THEN _mark_router_bindings_status_error(rows, edge_id)
                           ELSE rows
                /\ last' = DhcpLast("create_dhcp_bindings", n, edge_id, rejected, rejected)
    /\ UNCHANGED <<edge_vnic_bindings, edge_pool_dicts, nsxv_maximum_tunnels_per_vnic, locks,
                   active_edges, next_edge, next_uuid, deploy_tasks, delete_tasks,
                   update_edge_calls, pool_lock, pc, frame>>

\* the grid of a dhcp edge: the networks of nets on the first slots, free
\* slots as given, a network attached before on every other slot
DhcpGrid(edge_id, nets, free_slots) ==
    {IF b.tunnel_index \in nets
     THEN [b EXCEPT !.network_id = Net(b.tunnel_index)]
     ELSE IF b.tunnel_index \in free_slots
          THEN b
          ELSE [b EXCEPT !.network_id = Resident(b.tunnel_index)] :
       b \in init_edge_vnic_binding({}, edge_id)}

\* the slots left free on a dhcp edge at the start
DhcpFreeSlots == (GridSize - MAX_TUNNEL_NUM)..GridSize

\* network 1 has its dhcp service on edge 1; network 2 has none, or shares
\* edge 1, or has edge 2; the pool is empty or holds one idle edge
InitDhcp ==
    /\ nsxv_maximum_tunnels_per_vnic = maximum_tunnels_per_vnic
    /\ edge_pool_dicts = ConfOf(0, 1)
    /\ locks = {}
    /\ \E second \in {0, 1, 2} :
       \E backups \in {{}, {PersistedBackup(1, ACTIVE, <<SERVICE_EDGE, DhcpSize>>)}} :
       \E dhcp_status \in {ACTIVE, ERROR} :
         /\ rows = {Row(DhcpId(1), 1, dhcp_status, DhcpSize, SERVICE_EDGE)}
                     \cup (IF second = 0 THEN {}
                           ELSE {Row(DhcpId(2), second, ACTIVE, DhcpSize, SERVICE_EDGE)})
                     \cup backups
         /\ edge_vnic_bindings =
              DhcpGrid(1, IF second = 1 THEN {1, 2} ELSE {1}, DhcpFreeSlots)
                \cup (IF second = 2 THEN DhcpGrid(2, {2}, DhcpFreeSlots) ELSE {})
                \cup InitVnics({}, {r.edge_id : r \in backups})
         /\ active_edges = {r.edge_id : r \in rows}
    /\ next_edge = Cardinality(DhcpEdgeIds)
    /\ next_uuid = 0
    /\ deploy_tasks = {}
    /\ delete_tasks = {}
    /\ update_edge_calls = {}
    /\ pool_lock = NoProc
    /\ pc = [p \in Procs |-> "idle"]
    /\ frame = [p \in Procs |-> IdleFrame]
    /\ last = NoLast
    /\ ops = 0
    /\ faults = 0

NextDhcp ==
    \/ \E p \in Procs, n \in DhcpNets : CreateDhcpEdgeService(p, n)
    \/ \E p \in Procs, nets \in SUBSET DhcpNets : CreateUsedEdges(p, nets)
    \/ \E p \in Procs, rejected_config \in BOOLEAN, rejected_vnic \in BOOLEAN : CreateOnEdge(p, rejected_config, rejected_vnic)
    \/ \E p \in Procs, m \in MetadataNets : CreateReuse(p, m)
    \/ \E p \in Procs, ok \in BOOLEAN : CreateNew(p, ok)
    \/ \E p \in Procs, m \in MetadataNets : CreateNewVnic(p, m)
    \/ \E p \in Procs, n \in DhcpNets : DeleteDhcpEdgeService(p, n)
    \/ \E p \in Procs, rejected \in BOOLEAN : DeleteOnEdge(p, rejected)
    \/ \E p \in Procs, n \in DhcpNets, rejected \in BOOLEAN : UpdateDhcpEdgeService(p, n, rejected)
    \/ \E p \in Procs, n \in DhcpNets, rejected \in BOOLEAN : CreateDhcpBindings(p, n, rejected)
    \/ \E t \in delete_tasks : DeleteResult(t)

SpecDhcp == InitDhcp /\ [][NextDhcp]_vars

-----------------------------------------------------------------------------
(* The ERROR purge and the delete callbacks, scheduled fairly *)

\* the backup bindings of the pooled class the store holds at the start
PurgeChoices(i) ==
    {{}} \cup {{PersistedBackup(i, st, <<SERVICE_EDGE, LARGE>>)} : st \in {PENDING_CREATE, ACTIVE, ERROR}}

RECURSIVE PurgePools(_)
PurgePools(i) ==
    IF i = 0 THEN {{}}
    ELSE {rs \cup one : rs \in PurgePools(i - 1), one \in PurgeChoices(i)}

InitPurge ==
    \E conf \in PoolSpecConfs, persisted \in PurgePools(MaxPersisted) :
      /\ nsxv_maximum_tunnels_per_vnic = maximum_tunnels_per_vnic
      /\ locks = {}
      /\ edge_pool_dicts = conf
      /\ rows = persisted
      /\ next_uuid = 0
      /\ deploy_tasks = PeerDeployments(persisted)
      /\ delete_tasks = {}
      /\ active_edges = {r.edge_id : r \in persisted} \ {NoEdge}
      /\ edge_vnic_bindings = InitVnics({}, {r.edge_id : r \in persisted} \ {NoEdge})
      /\ next_edge = 0
      /\ update_edge_calls = {}
      /\ pool_lock = NoProc
      /\ pc = [p \in Procs |-> "idle"]
      /\ frame = [p \in Procs |-> IdleFrame]
      /\ last = NoLast
      /\ ops = 0
      /\ faults = 0

\* _clean_all_error_edge_bindings, as the reconciler, an allocate or a free
\* of the pooled class runs it, whenever there is something to purge
ErrorPurge ==
    /\ ErrorBackupBindings(rows) # {}
    /\ rows' = CleanErrorRows(rows)
    /\ delete_tasks' = CleanErrorTasks(rows, delete_tasks)
    /\ UNCHANGED <<edge_vnic_bindings, edge_pool_dicts, nsxv_maximum_tunnels_per_vnic, locks, active_edges, next_edge, next_uuid, deploy_tasks, update_edge_calls, pool_lock, pc, frame, last, ops, faults>>

DeleteDelivered == \E t \in delete_tasks : DeleteResult(t)

NextPurge ==
    \/ ErrorPurge
    \/ \E t \in deploy_tasks : DeployStarted(t)
    \/ \E t \in deploy_tasks : DeployRefused(t)
    \/ \E t \in deploy_tasks, ok \in BOOLEAN : DeployResult(t, ok)
    \/ DeleteDelivered

\* the purge runs again and again, the task manager delivers every callback
SpecPurge ==
    InitPurge /\ [][NextPurge]_vars /\ WF_vars(ErrorPurge) /\ WF_vars(DeleteDelivered)

-----------------------------------------------------------------------------
(* The backend task callbacks on a store whose rows may be gone already *)

\* routers being deployed (service, distributed) and routers being deleted
\* faulty variant: a delete task that failed leaves the store alone
DeleteResultFailedKeepsStore(t) ==
    /\ t \in delete_tasks
    /\ t.edge_id \in active_edges
    /\ faults < MaxFaults
    /\ faults' = faults + 1
    /\ delete_tasks' = delete_tasks \ {t}
    /\ UNCHANGED <<rows, edge_vnic_bindings, edge_pool_dicts, nsxv_maximum_tunnels_per_vnic, locks, active_edges, next_edge, next_uuid, deploy_tasks, update_edge_calls, pool_lock, pc, frame, last, ops>>

\* a delete task ended FAILED, the edge is still there: edge_delete_result
\* does not read task.status
DeleteResultFailed(t) ==
    /\ t \in delete_tasks
    /\ t.edge_id \in active_edges
    /\ faults < MaxFaults
    /\ faults' = faults + 1
    /\ delete_tasks' = delete_tasks \ {t}
    /\ rows' = edge_delete_result_rows(rows, t.router_id)
    /\ edge_vnic_bindings' = edge_delete_result_vnics(edge_vnic_bindings, t.edge_id, t.dist)
    /\ UNCHANGED <<edge_pool_dicts, nsxv_maximum_tunnels_per_vnic, locks, active_edges, next_edge, next_uuid, deploy_tasks, update_edge_calls, pool_lock, pc, frame, last, ops>>

UpdateLast(router_id, raised) ==
    [op |-> "edge_update_result", router_id |-> router_id, raised |-> raised]

\* edge_update_result of an update task that failed, first statement:
\* get_nsxv_router_binding in a transaction of its own
EdgeUpdateResult(p, router_id) ==
    /\ FirstIdle(p)
    /\ ops < MaxOps
    /\ ops' = ops + 1
    /\ IF get_nsxv_router_binding(rows, router_id) = NoBinding
       THEN /\ last' = UpdateLast(router_id, FALSE)
            /\ UNCHANGED <<pc, frame>>
       ELSE /\ Goto(p, "u_update")
            /\ frame' = [frame EXCEPT ![p] = [IdleFrame EXCEPT !.resource_id = router_id]]
            /\ UNCHANGED last
    /\ UNCHANGED <<rows, edge_vnic_bindings, edge_pool_dicts, nsxv_maximum_tunnels_per_vnic, locks, active_edges, next_edge, next_uuid, deploy_tasks, delete_tasks, update_edge_calls, pool_lock, faults>>

\* ... second statement: update_nsxv_router_binding(status=ERROR), whose
\* .one() raises NoResultFound when the row is not there
EdgeUpdateResultSet(p) ==
    /\ pc[p] = "u_update"
    /\ IF NoResultFound(rows, frame[p].resource_id)
       THEN /\ last' = UpdateLast(frame[p].resource_id, TRUE)
            /\ UNCHANGED rows
       ELSE /\ last' = UpdateLast(frame[p].resource_id, FALSE)
            /\ rows' = update_nsxv_router_binding_status(rows, frame[p].resource_id, ERROR)
    /\ Return(p)
    /\ UNCHANGED <<edge_vnic_bindings, edge_pool_dicts, nsxv_maximum_tunnels_per_vnic, locks, active_edges, next_edge, next_uuid, deploy_tasks, delete_tasks, update_edge_calls, pool_lock, ops, faults>>

DeployingRouters == {<<RouterId("", 1), FALSE>>, <<RouterId("", 2), TRUE>>}
DeletingRouters == {<<RouterId("", 3), FALSE, PersistedEdge(1)>>, <<RouterId("", 4), TRUE, PersistedEdge(2)>>}

CallbackRows ==
    {Row(x[1], NoEdge, PENDING_CREATE, LARGE, EdgeType(x[2])) : x \in DeployingRouters}
      \cup {Row(x[1], x[3], PENDING_DELETE, LARGE, EdgeType(x[2])) : x \in DeletingRouters}

\* every task is in flight; any of the rows may have been deleted meanwhile
InitCallback ==
  \E present \in SUBSET CallbackRows :
    /\ nsxv_maximum_tunnels_per_vnic = maximum_tunnels_per_vnic
    /\ locks = {}
    /\ edge_pool_dicts = ConfOf(0, 0)
    /\ rows = present
    /\ next_uuid = 0
    /\ deploy_tasks = {DeployTask(x[1], RouterName(x[1]), LARGE, x[2], "api") : x \in DeployingRouters}
    /\ delete_tasks = {DeleteTask(x[1], x[3], x[2]) : x \in DeletingRouters}
    /\ active_edges = {x[3] : x \in DeletingRouters}
    /\ edge_vnic_bindings =
         UNION {IF x[2] THEN AttachedVdr(x[3], 1) ELSE AttachedGrid(x[3], 1) : x \in DeletingRouters}
    /\ next_edge = 0
    /\ update_edge_calls = {}
    /\ pool_lock = NoProc
    /\ pc = [p \in Procs |-> "idle"]
    /\ frame = [p \in Procs |-> IdleFrame]
    /\ last = NoLast
    /\ ops = 0
    /\ faults = 0

NextCallback ==
    \/ \E t \in deploy_tasks : DeployStarted(t)
    \/ \E t \in deploy_tasks : DeployRefused(t)
    \/ \E t \in deploy_tasks, ok \in BOOLEAN : DeployResult(t, ok)
    \/ \E t \in delete_tasks : DeleteResult(t)
    \/ \E t \in delete_tasks : DeleteResultFailed(t)
    \/ \E p \in Procs, x \in DeployingRouters \cup DeletingRouters : EdgeUpdateResult(p, x[1])
    \/ \E p \in Procs : EdgeUpdateResultSet(p)

SpecCallback == InitCallback /\ [][NextCallback]_vars

-----------------------------------------------------------------------------
(* Properties *)

IdleBindings(rs, appliance_size, edge_type) ==
    {r \in rs : /\ LikeBackup(r.router_id)
                /\ r.status \in {ACTIVE, PENDING_CREATE}
                /\ r.appliance_size = appliance_size
                /\ r.edge_type = edge_type}

\* the step of worker p from label a to label b
Step(p, a, b) == pc[p] = a /\ pc'[p] = b

\* rows holding an edge handed out by pool reuse: the row of a resource whose
\* rename to the resource's name was issued for the edge the row carries
ReusedRows ==
    {r \in rows : /\ ~ LikeBackup(r.router_id)
                  /\ r.edge_id # NoEdge
                  /\ UpdateEdgeCall(r.router_id, r.edge_id, RouterName(r.router_id))
                       \in update_edge_calls}

\* C1: an idle appliance is handed to at most one resource: no two different
\* non-backup bindings hold the same appliance, both obtained by pool reuse.
C1_NoDoubleAllocation ==
    \A r1 \in ReusedRows, r2 \in ReusedRows :
      r1.edge_id = r2.edge_id => r1.router_id = r2.router_id

PooledByFree ==
    {b \in rows : /\ LikeBackup(b.router_id)
                  /\ b.status = ACTIVE
                  /\ UpdateEdgeCall(b.router_id, b.edge_id, IdAsName(b.router_id))
                       \in update_edge_calls}

\* worker p requests an edge for a resource without binding, and binding b is
\* the only idle candidate of the requested class
OnlyIdleCandidate(p, b) ==
    /\ NoResultFound(rows, frame[p].resource_id)
    /\ b.appliance_size = frame[p].appliance_size
    /\ b.edge_type = EdgeType(frame[p].dist)
    /\ IdleBindings(rows, frame[p].appliance_size, EdgeType(frame[p].dist)) = {b}

\* the row allocate leaves for the resource carries the edge it selected
RenameBindsSelected(p) ==
    Step(p, "a_rename", "a_refill_count")
    => \E r \in rows' :
         /\ r.router_id = frame[p].resource_id
         /\ r.edge_id = frame[p].available_router_binding.edge_id

\* C5 as stated: an appliance freed into the pool that is the only idle
\* candidate of its class is the one a following allocate of that class
\* selects and binds to the new resource.
C5_RoundTripAsStated ==
    [][\A p \in Procs :
         /\ Step(p, "a_request", "a_selected")
            => \A b \in PooledByFree :
                 OnlyIdleCandidate(p, b)
                 => frame'[p].available_router_binding = b
         /\ RenameBindsSelected(p)]_vars

\* C5: an appliance freed into the pool that is the only idle candidate of its
\* class, and that the backend still reports active when allocate probes it, is
\* the one a following allocate of that class selects and binds to the new
\* resource.
C5_RoundTrip ==
    [][\A p \in Procs :
         /\ Step(p, "a_request", "a_selected")
            => \A b \in PooledByFree :
                 OnlyIdleCandidate(p, b) /\ b.edge_id \in active_edges
                 => frame'[p].available_router_binding = b
         /\ RenameBindsSelected(p)]_vars

\* a resource holds, through reuse, the edge a free had renamed to a backup id
C5_Witness ==
    \E r \in ReusedRows :
      \E c \in update_edge_calls :
        /\ c.edge_id = r.edge_id
        /\ LikeBackup(c.router_id)
        /\ c.name = IdAsName(c.router_id)

\* C6: the idle count of a class never exceeds its maximum_pooled_edges; with
\* no refill (minimum 0) every backup binding comes from a free, so of two
\* concurrent frees into a pool with one place left only one may convert.
C6_IdleWithinMax ==
    \A edge_type \in ALLOWED_EDGE_TYPES, appliance_size \in ALLOWED_EDGE_SIZES :
      HasPoolRange(edge_pool_dicts, edge_type, appliance_size)
      /\ edge_pool_dicts[edge_type][appliance_size].minimum_pooled_edges = 0
      => Cardinality(IdleBindings(rows, appliance_size, edge_type))
           <= edge_pool_dicts[edge_type][appliance_size].maximum_pooled_edges

\* the step of _check_backup_edge_pool; last' holds its arguments and the idle
\* count it read
ReconcileOneStep == last = NoLast /\ last'.op = "_check_backup_edge_pool"

ReconcileOneDone ==
    /\ last.op = "_check_backup_edge_pool"
    /\ deploy_tasks = {}
    /\ delete_tasks = {}
    /\ faults = 0

IdleCountWithin(lo, hi, appliance_size, edge_type) ==
    LET n == Cardinality(IdleBindings(rows, appliance_size, edge_type))
    IN  lo <= n /\ n <= hi

\* C7 as stated: after _check_backup_edge_pool(min, max, size, type) and the
\* backend operations it scheduled have completed without failure, the idle
\* count of the class lies in [min, max].
C7_ConvergesAsStated ==
    ReconcileOneDone
    => IdleCountWithin(last.minimum_pooled_edges, last.maximum_pooled_edges,
                       last.appliance_size, last.edge_type)

\* C7: when min <= max, after _check_backup_edge_pool(min, max, size, type) and
\* the backend operations it scheduled have completed without failure, the idle
\* count of the class lies in [min, max].
C7_Converges ==
    ReconcileOneDone /\ last.minimum_pooled_edges <= last.maximum_pooled_edges
    => IdleCountWithin(last.minimum_pooled_edges, last.maximum_pooled_edges,
                       last.appliance_size, last.edge_type)

\* a refill whose deployments all ended: an edge deployed in this run is idle
C7_Witness ==
    /\ ReconcileOneDone
    /\ last.minimum_pooled_edges <= last.maximum_pooled_edges
    /\ last.backup_num < last.minimum_pooled_edges
    /\ \E r \in IdleBindings(rows, last.appliance_size, last.edge_type) :
         r.status = ACTIVE /\ r.edge_id \in 1..next_edge

StoreUnchangedBut(changed_rows, new_rows) ==
    /\ rows' = (rows \ changed_rows) \cup new_rows
    /\ UNCHANGED <<edge_vnic_bindings, active_edges, update_edge_calls,
                   edge_pool_dicts, nsxv_maximum_tunnels_per_vnic, locks>>

\* C8: when the idle count exceeds max, _check_backup_edge_pool sets exactly
\* idle - max idle bindings of the class to PENDING_DELETE, issues a backend
\* delete for exactly those, and leaves every other binding unchanged.
C8_TrimExact ==
    [][ReconcileOneStep /\ last'.backup_num > last'.maximum_pooled_edges
       => LET surplus == rows \ rows'
          IN  /\ Cardinality(surplus)
                   = last'.backup_num - last'.maximum_pooled_edges
              /\ surplus \subseteq
                   IdleBindings(rows, last'.appliance_size, last'.edge_type)
              /\ StoreUnchangedBut(
                   surplus, {[r EXCEPT !.status = PENDING_DELETE] : r \in surplus})
              /\ delete_tasks \subseteq delete_tasks'
              /\ delete_tasks' \ delete_tasks =
                   {DeleteTask(r.router_id, r.edge_id, r.edge_type = VDR_EDGE) :
                      r \in surplus}
              /\ UNCHANGED <<deploy_tasks, next_uuid>>]_vars

\* a trim that left an idle binding of the class in place
C8_Witness ==
    /\ last.op = "_check_backup_edge_pool"
    /\ last.backup_num > last.maximum_pooled_edges
    /\ last.maximum_pooled_edges > 0
    /\ delete_tasks # {}

RefillExact ==
    LET created == rows' \ rows
        handed == deploy_tasks' \ deploy_tasks
    IN  /\ Cardinality(created) = last'.minimum_pooled_edges - last'.backup_num
        /\ \A r \in created :
             /\ LikeBackup(r.router_id)
             /\ r.status = PENDING_CREATE
             /\ r.edge_id = NoEdge
             /\ r.appliance_size = last'.appliance_size
             /\ r.edge_type = last'.edge_type
        /\ StoreUnchangedBut({}, created)
        /\ deploy_tasks \subseteq deploy_tasks'
        /\ Cardinality(handed) = Cardinality(created)
        /\ {t.router_id : t \in handed} = {r.router_id : r \in created}

\* C9 as stated: when the idle count is below min, _check_backup_edge_pool
\* creates exactly min - idle backup rows, PENDING_CREATE and without edge, and
\* hands exactly their ids to the deployer.
C9_RefillAsStated ==
    [][ReconcileOneStep /\ last'.backup_num < last'.minimum_pooled_edges
       => RefillExact]_vars

\* C9: when the idle count is below min and not above max,
\* _check_backup_edge_pool creates exactly min - idle backup rows,
\* PENDING_CREATE and without edge, and hands exactly their ids to the deployer.
C9_Refill ==
    [][/\ ReconcileOneStep
       /\ last'.backup_num < last'.minimum_pooled_edges
       /\ last'.backup_num <= last'.maximum_pooled_edges
       => RefillExact]_vars

\* a refill of more than one row beside an idle binding already there
C9_Witness ==
    /\ last.op = "_check_backup_edge_pool"
    /\ last.backup_num < last.minimum_pooled_edges
    /\ last.backup_num <= last.maximum_pooled_edges
    /\ last.backup_num > 0
    /\ Cardinality(deploy_tasks) = last.minimum_pooled_edges - last.backup_num

\* the steps of worker p in which allocate or free reads the idle bindings of a
\* class: under the pool lock, and the refill count of allocate
LockedCountStep(p) ==
    Step(p, "a_request", "a_selected") \/ Step(p, "f_request", "f_counted")

CountStep(p) == LockedCountStep(p) \/ Step(p, "a_refill_count", "a_refill_deploy")

ReconcileAllStep == last = NoLast /\ last'.op = "_check_backup_edge_pools"

BackupRowsOfClass(rs, edge_type, appliance_size) ==
    {r \in rs : /\ LikeBackup(r.router_id)
                /\ r.edge_type = edge_type
                /\ r.appliance_size = appliance_size}

Clamp(n, lo, hi) == IF n > hi THEN hi ELSE IF n < lo THEN lo ELSE n

\* C11: _check_backup_edge_pools visits every allowed (type, size): after it no
\* backup binding of a class without pool range is ACTIVE, PENDING_CREATE or
\* ERROR, and the idle count of a configured class is set by that class's own
\* min and max; rows kept from before change in status only, to PENDING_DELETE,
\* and non-backup rows do not change.
C11_ReconcileAll ==
    [][ReconcileAllStep
       => /\ \A r \in rows' :
               LikeBackup(r.router_id)
               /\ ~ HasPoolRange(edge_pool_dicts, r.edge_type, r.appliance_size)
               => r.status = PENDING_DELETE
          /\ \A t \in ALLOWED_EDGE_TYPES, s \in ALLOWED_EDGE_SIZES :
               HasPoolRange(edge_pool_dicts, t, s)
               => Cardinality(IdleBindings(rows', s, t))
                    = Clamp(Cardinality(IdleBindings(rows, s, t)),
                            edge_pool_dicts[t][s].minimum_pooled_edges,
                            edge_pool_dicts[t][s].maximum_pooled_edges)
          /\ \A r \in rows :
               \/ r \in rows'
               \/ /\ LikeBackup(r.router_id)
                  /\ [r EXCEPT !.status = PENDING_DELETE] \in rows'
          /\ \A r \in rows' \ rows :
               \/ \E o \in rows : r = [o EXCEPT !.status = PENDING_DELETE]
               \/ /\ r.status = PENDING_CREATE
                  /\ HasPoolRange(edge_pool_dicts, r.edge_type, r.appliance_size)]_vars

\* after a reconcile of all classes: a placeholder of a class without pool range
\* was trimmed, beside an idle binding of the configured class
C11_Witness ==
    /\ last.op = "_check_backup_edge_pools"
    /\ \E r \in rows :
         /\ LikeBackup(r.router_id)
         /\ ~ HasPoolRange(edge_pool_dicts, r.edge_type, r.appliance_size)
         /\ r.status = PENDING_DELETE
         /\ r.edge_id = NoEdge
         /\ DeleteTask(r.router_id, NoEdge, r.edge_type = VDR_EDGE) \in delete_tasks
    /\ \E t \in ALLOWED_EDGE_TYPES, s \in ALLOWED_EDGE_SIZES :
         /\ HasPoolRange(edge_pool_dicts, t, s)
         /\ IdleBindings(rows, s, t) # {}


\* C12: the ERROR purge is idempotent on the binding store: a second
\* _clean_all_error_edge_bindings right after the first leaves every row and
\* every status as the first left them, and issues no further delete.
C12_PurgeIdempotent ==
    [][/\ last.op = "_clean_all_error_edge_bindings"
       /\ last.runs = 1
       /\ last'.op = "_clean_all_error_edge_bindings"
       /\ last'.runs = 2
       => /\ rows' = rows
          /\ delete_tasks' = delete_tasks]_vars

\* the purge ran twice and the first run met more than one ERROR backup binding
C12_Witness ==
    /\ last.op = "_clean_all_error_edge_bindings"
    /\ last.runs = 2
    /\ Cardinality(last.error_router_bindings) = 0
    /\ \E r1 \in rows, r2 \in rows :
         /\ r1 # r2
         /\ \A r \in {r1, r2} :
              /\ LikeBackup(r.router_id)
              /\ r.status = PENDING_DELETE
              /\ DeleteTask(r.router_id, r.edge_id, r.edge_type = VDR_EDGE)
                   \in delete_tasks


BackupRows(rs) == {r \in rs : LikeBackup(r.router_id)}

\* the binding of router_id is stored and cannot go to the pool: it is in
\* ERROR, or its edge does not answer active, or its class has no pool range
IneligibleForPool(router_id) ==
    \E b \in rows :
      /\ b.router_id = router_id
      /\ \/ b.status = ERROR
         \/ b.edge_id \notin active_edges
         \/ b.appliance_size \notin DOMAIN edge_pool_dicts[b.edge_type]

FreeBranch(p) ==
    \A label \in {"f_del_binding", "f_delete_edge"} :
      Step(p, "f_counted", label)
      => (label = "f_del_binding"
            <=> frame[p].backup_num < PoolRange(p).maximum_pooled_edges)

\* C14: _free_edge_appliance on an eligible binding that counted fewer idle
\* bindings than max removes the row of the freed resource, stores one backup
\* row, ACTIVE, with the same edge, size and type, and issues the rename of the
\* edge to the backup id; it issues no backend delete.
C14_FreeToPool ==
    [][\A p \in Procs :
         /\ FreeBranch(p)
         /\ Step(p, "f_del_binding", "f_add_backup")
            => /\ NoResultFound(rows', frame[p].resource_id)
               /\ rows' = rows \ {frame[p].binding}
               /\ UNCHANGED <<delete_tasks, update_edge_calls>>
         /\ Step(p, "f_add_backup", "f_rename")
            => /\ rows \subseteq rows'
               /\ \E b \in rows' \ rows :
                    /\ rows' \ rows = {b}
                    /\ LikeBackup(b.router_id)
                    /\ b.router_id = frame'[p].backup_router_id
                    /\ b.status = ACTIVE
                    /\ b.edge_id = frame[p].binding.edge_id
                    /\ b.appliance_size = frame[p].binding.appliance_size
                    /\ b.edge_type = frame[p].binding.edge_type
               /\ UNCHANGED <<delete_tasks, update_edge_calls>>
         /\ Step(p, "f_rename", "idle")
            => /\ update_edge_calls' = update_edge_calls \cup
                    {UpdateEdgeCall(frame[p].backup_router_id,
                                    frame[p].binding.edge_id,
                                    IdAsName(frame[p].backup_router_id))}
               /\ UNCHANGED <<rows, delete_tasks>>]_vars

\* a free has put its edge into the pool and returned; no delete was issued
C14_Witness ==
    /\ \A p \in Procs : pc[p] = "idle"
    /\ delete_tasks = {}
    /\ \E b \in PooledByFree :
         /\ b.edge_id \in active_edges
         /\ \A r \in rows : r.edge_id = b.edge_id => r = b


C16_FreeMissing ==
    [][\A p \in Procs, router_id \in RouterIds :
         Free(p, router_id) /\ NoResultFound(rows, router_id)
         => /\ pc'[p] = "idle"
            /\ UNCHANGED <<rows, edge_vnic_bindings, delete_tasks, deploy_tasks,
                           update_edge_calls, pool_lock, active_edges>>]_vars

\* a free of a resource without binding has returned, twice over, beside a
\* stored binding of another resource: nothing was issued
C16_Witness ==
    /\ ops = MaxOps
    /\ \A p \in Procs : pc[p] = "idle"
    /\ \E r \in RouterIds : NoResultFound(rows, r)
    /\ BackupRows(rows) # {}
    /\ delete_tasks = {}
    /\ update_edge_calls = {}
    /\ \A r \in rows : ~ LikeBackup(r.router_id) => r.edge_id \in active_edges
    /\ next_uuid = Cardinality(BackupRows(rows))


UnpooledFrame(p) ==
    ~ HasPoolRange(edge_pool_dicts, EdgeType(frame[p].dist),
                   frame[p].appliance_size)

\* C17: _allocate_edge_appliance for a class without pool entry adds the
\* binding of the resource as PENDING_CREATE without appliance and issues the
\* deploy with that row stored; from call to return it does not take the
\* purge-and-select path, leaves every backup row and every delete as they
\* are, and creates no pool-filler row.
C17_AllocateUnpooled ==
    [][/\ \A p \in Procs, r \in RouterIds, s \in RequestSizes, d \in RequestDist :
            Allocate(p, r, s, d) /\ ~ HasPoolRange(edge_pool_dicts, EdgeType(d), s)
            => /\ pc'[p] \in {"idle", "a_deploy_wait"}
               /\ UNCHANGED <<pool_lock, delete_tasks, next_uuid>>
               /\ BackupRows(rows') = BackupRows(rows)
               /\ ~ DBDuplicateEntry(rows, r)
                  => /\ rows' = rows \cup {Row(r, NoEdge, PENDING_CREATE, s,
                                               EdgeType(d))}
                     /\ \E t \in deploy_tasks' \ deploy_tasks :
                          /\ t.router_id = r
                          /\ t.by = p
                          /\ deploy_tasks' = deploy_tasks \cup {t}
                     /\ pc'[p] = "a_deploy_wait"
       /\ \A p \in Procs :
            pc[p] = "a_deploy_wait" /\ UnpooledFrame(p)
            => /\ pc'[p] \in {"idle", "a_deploy_wait"}
               /\ pc'[p] = "idle"
                  => /\ BackupRows(rows') = BackupRows(rows)
                     /\ UNCHANGED <<pool_lock, delete_tasks, next_uuid>>]_vars

\* an unpooled allocate waits for its deploy beside an ERROR backup row that
\* the purge would have removed
C17_Witness ==
    \E p \in Procs :
      /\ pc[p] = "a_deploy_wait"
      /\ UnpooledFrame(p)
      /\ \E r \in rows : /\ r.router_id = frame[p].resource_id
                         /\ r.status = PENDING_CREATE
                         /\ r.edge_id = NoEdge
      /\ \E b \in BackupRows(rows) : b.status = ERROR


\* C18: the refill that ends _allocate_edge_appliance in a pooled class never
\* takes the class above its minimum, whatever other allocate calls do
\* meanwhile: it creates at most max(0, minimum_pooled_edges - idle count)
\* PENDING_CREATE backup rows, the idle count being that of the store the
\* rows are added to.
C18_RefillNeverAboveMin ==
    [][\A p \in Procs :
         Step(p, "a_refill_deploy", "idle")
         => LET appliance_size == frame[p].appliance_size
                edge_type == EdgeType(frame[p].dist)
                lo == PoolRange(p).minimum_pooled_edges
                idle == Cardinality(IdleBindings(rows, appliance_size, edge_type))
            IN  /\ Cardinality(rows' \ rows) <= Max(0, lo - idle)
                /\ Cardinality(IdleBindings(rows', appliance_size, edge_type))
                     <= Max(lo, idle)]_vars


OccupiedVnics(edge_id) ==
    {b \in edge_vnic_bindings : b.edge_id = edge_id /\ b.network_id # NoNet}

\* C19 read for every appliance, distributed ones included: the rows of an
\* appliance that hold a network are at most (MAX_VNIC_NUM - 1) * MAX_TUNNEL_NUM.
C19_OccupiedWithinGridAsStated ==
    \A edge_id \in VnicEdges :
      Cardinality(OccupiedVnics(edge_id)) <= (MAX_VNIC_NUM - 1) * MAX_TUNNEL_NUM

\* C19: on every appliance that is not distributed the rows that hold a
\* network are at most (MAX_VNIC_NUM - 1) * MAX_TUNNEL_NUM, and they are rows
\* of the grid of init_edge_vnic_binding.
C19_OccupiedWithinGrid ==
    \A edge_id \in VnicEdges :
      ~ IsDist(edge_id)
      => /\ Cardinality(OccupiedVnics(edge_id))
              <= (MAX_VNIC_NUM - 1) * MAX_TUNNEL_NUM
         /\ \A b \in OccupiedVnics(edge_id) :
              /\ b.vnic_index \in 1..(MAX_VNIC_NUM - 1)
              /\ b.tunnel_index \in ((b.vnic_index - 1) * MAX_TUNNEL_NUM + 1)
                                      ..(b.vnic_index * MAX_TUNNEL_NUM)

\* an allocation has taken the last free slot of a service edge
C19_Witness ==
    /\ last # NoLast
    /\ last.op = "allocate_edge_vnic_with_tunnel_index"
    /\ last.raised = "none"
    /\ ~ IsDist(last.edge_id)
    /\ Cardinality(OccupiedVnics(last.edge_id))
         = (MAX_VNIC_NUM - 1) * MAX_TUNNEL_NUM

\* C20: allocate_edge_vnic on an appliance without a free row whose
\* tunnel_index is the first of its vnic raises NsxPluginException and leaves
\* every vnic binding of every appliance as it is.
C20_AllocateFull ==
    [][\A edge_id \in VnicEdges, network_id \in RequestNets :
         /\ AllocateEdgeVnic(edge_id, network_id)
         /\ ~ \E b \in edge_vnic_bindings :
                /\ b.edge_id = edge_id
                /\ b.network_id = NoNet
                /\ b.tunnel_index % MAX_TUNNEL_NUM = 1
         => /\ last'.raised = "NsxPluginException"
            /\ UNCHANGED edge_vnic_bindings]_vars

\* allocate_edge_vnic has raised on a service edge whose grid is stored and
\* has a free row left, none of them the first of its vnic
C20_Witness ==
    /\ last # NoLast
    /\ last.op = "allocate_edge_vnic"
    /\ last.raised = "NsxPluginException"
    /\ ~ IsDist(last.edge_id)
    /\ \E b \in edge_vnic_bindings :
         b.edge_id = last.edge_id /\ b.network_id = NoNet
    /\ \E b \in edge_vnic_bindings : b.edge_id # last.edge_id


VnicsOfEdge(vs, edge_id) == {b \in vs : b.edge_id = edge_id}

FirstPosition(b) == b.tunnel_index = (b.vnic_index - 1) * MAX_TUNNEL_NUM + 1

\* C22: for every permitted MAX_TUNNEL_NUM, 1 included, allocate_edge_vnic
\* succeeds whenever the appliance has a free slot that is the first tunnel
\* position of its vnic, and assigns the network to such a slot and to no
\* other.
C22_AllocateFirstPosition ==
    [][\A edge_id \in VnicEdges, network_id \in RequestNets :
         AllocateEdgeVnic(edge_id, network_id)
         => LET free_first == {b \in edge_vnic_bindings :
                                 /\ b.edge_id = edge_id
                                 /\ b.network_id = NoNet
                                 /\ FirstPosition(b)}
            IN  free_first # {}
                => /\ last'.raised = "none"
                   /\ \E b \in free_first :
                        edge_vnic_bindings' =
                          (edge_vnic_bindings \ {b})
                            \cup {[b EXCEPT !.network_id = network_id]}]_vars

\* C25: MAX_TUNNEL_NUM is the configured maximum_tunnels_per_vnic for every
\* configured value v with 0 < v <= 110, and 10 for every other value.
C25_ClampInclusive ==
    IF 0 < nsxv_maximum_tunnels_per_vnic /\ nsxv_maximum_tunnels_per_vnic <= 110
    THEN MAX_TUNNEL_NUM = nsxv_maximum_tunnels_per_vnic
    ELSE MAX_TUNNEL_NUM = 10


\* C23: allocate_specific_edge_vnic on a slot that holds a network fails and
\* leaves the occupant of the slot, and every other row, as it is.
C23_SpecificOccupiedFails ==
    [][\A edge_id \in VnicEdges, s \in SpecificSlots, network_id \in RequestNets :
         /\ AllocateSpecificEdgeVnic(edge_id, s[1], s[2], network_id)
         /\ \E b \in edge_vnic_bindings : /\ b.edge_id = edge_id
                                          /\ b.vnic_index = s[1]
                                          /\ b.tunnel_index = s[2]
                                          /\ b.network_id # NoNet
         => /\ last'.raised # "none"
            /\ UNCHANGED edge_vnic_bindings]_vars


\* C24: free_edge_vnic_by_network sets network_id to None on the one slot of
\* the appliance that holds the network and changes no other row; when no
\* slot of the appliance holds the network it raises NoResultFound and changes
\* nothing.
C24_FreeByNetwork ==
    [][\A edge_id \in VnicEdges, network_id \in RequestNets :
         FreeEdgeVnicByNetwork(edge_id, network_id)
         => LET held == {b \in edge_vnic_bindings :
                           b.edge_id = edge_id /\ b.network_id = network_id}
            IN  /\ held = {}
                   => /\ last'.raised = "NoResultFound"
                      /\ UNCHANGED edge_vnic_bindings
                /\ Cardinality(held) = 1
                   => /\ last'.raised = "none"
                      /\ \E b \in held :
                           edge_vnic_bindings' =
                             (edge_vnic_bindings \ {b})
                               \cup {[b EXCEPT !.network_id = NoNet]}]_vars

\* a network has been freed on a service edge that holds other networks, and
\* a second free of it has raised
C24_Witness ==
    /\ last # NoLast
    /\ last.op = "free_edge_vnic_by_network"
    /\ last.raised = "NoResultFound"
    /\ ops = MaxVnicOps
    /\ ~ IsDist(last.edge_id)
    /\ \E b \in VnicsOfEdge(edge_vnic_bindings, last.edge_id) :
         /\ b.network_id = NoNet
         /\ b.vnic_index = 1
         /\ b.tunnel_index = 1
    /\ Cardinality(OccupiedVnics(last.edge_id))
         = (MAX_VNIC_NUM - 1) * MAX_TUNNEL_NUM - 1


\* C26: a backup-prefixed binding that has reached PENDING_DELETE never
\* becomes ACTIVE, PENDING_CREATE or ERROR again: in every step, a backup
\* row that was PENDING_DELETE is afterwards either removed or still
\* PENDING_DELETE, whichever callback arrives for it.
C26_PendingDeleteIsFinal == [][\A r \in BackupRows(rows) : r.status = PENDING_DELETE => \A s \in rows' : s.router_id = r.router_id => s.status = PENDING_DELETE]_vars


\* worker q is between reading the router binding on edge_id and the end of
\* the backend call that changes the interfaces of that edge
Reconfiguring(q, edge_id) ==
    pc[q] = "i_backend" /\ frame[q].binding.edge_id = edge_id

\* the nsxv_manager.update_edge calls worker p issues in this step
RenamesBy(p) ==
    IF pc[p] \in {"a_rename", "f_rename"} /\ pc'[p] # pc[p]
    THEN update_edge_calls' \ update_edge_calls
    ELSE {}

\* the rename of allocate reuse is inside with get_lock(str(edge_id))
RenameLocked(p, edge_id) ==
    pc[p] = "a_rename" \/ HoldsLock(p, EdgeLockName(edge_id))

\* C27: every rename of an appliance (update_edge issued by allocate reuse
\* or by free-to-pool) is performed while the renaming worker holds the lock
\* named by the appliance id, and no other worker is reconfiguring that
\* appliance at the time.
C27_RenameUnderApplianceLock == [][\A p \in Procs : \A c \in RenamesBy(p) : RenameLocked(p, c.edge_id) /\ \A q \in Procs \ {p} : ~ Reconfiguring(q, c.edge_id)]_vars

\* C28: two workers are never both inside the read-modify-write span of an
\* interface operation on the same appliance, whichever routers the
\* operations were issued for.
C28_InterfaceOpsExclusive == \A p \in Procs : \A q \in Procs \ {p} : ~ (pc[p] = "i_backend" /\ Reconfiguring(q, frame[p].binding.edge_id))


\* the backup rows allocate can select: ACTIVE, on a known service edge
VisibleBackups ==
    {r \in BackupRows(rows) : r.status = ACTIVE /\ r.edge_type = SERVICE_EDGE /\ r.edge_id # NoEdge}

\* C29: whenever a backup-prefixed ACTIVE binding of a non-distributed
\* appliance is visible to allocate, the slot grid of the appliance is
\* complete and every slot has network_id null.
C29_PooledGridClean == \A r \in VisibleBackups : VnicsOfEdge(edge_vnic_bindings, r.edge_id) = init_edge_vnic_binding({}, r.edge_id)


\* the edge a worker is moving between a backup row and a router row
MovedEdge(p) ==
    IF pc[p] = "a_add_reused" THEN frame[p].available_router_binding.edge_id
    ELSE IF pc[p] = "f_add_backup" THEN frame[p].binding.edge_id
    ELSE NoEdge

\* C30: during pool reuse and during free-to-pool the removal of the old
\* binding row and the insertion of the new row on the same edge are atomic:
\* in no state of the store is the edge a worker is moving referenced by no
\* Router Binding row.
C30_MoveAtomic == \A p \in Procs : MovedEdge(p) # NoEdge => \E r \in rows : r.edge_id = MovedEdge(p)


\* C31: on deploy STARTED with an appliance id the callback records the id
\* on the binding of the deploying resource and, only for a non-distributed
\* appliance, seeds its slot grid; on deploy STARTED without an appliance id
\* it sets the binding to ERROR and seeds no slots.
C31_DeployStarted ==
    [][\A t \in deploy_tasks :
         LET b == get_nsxv_router_binding(rows, t.router_id)
         IN  /\ (DeployStarted(t) /\ b # NoBinding)
                  => /\ rows' = (rows \ {b}) \cup {[b EXCEPT !.edge_id = next_edge']}
                     /\ edge_vnic_bindings' = edge_vnic_bindings \cup
                          (IF t.dist THEN {} ELSE init_edge_vnic_binding({}, next_edge'))
             /\ (DeployRefused(t) /\ b # NoBinding)
                  => /\ rows' = (rows \ {b}) \cup {[b EXCEPT !.status = ERROR]}
                     /\ edge_vnic_bindings' = edge_vnic_bindings]_vars

\* the distributed router got its edge and no grid, the service router was
\* refused and is in ERROR
C31_Witness ==
    /\ faults = 0
    /\ \E b \in rows : /\ b.router_id = RouterId("", 2)
                       /\ b.edge_id # NoEdge
                       /\ VnicsOfEdge(edge_vnic_bindings, b.edge_id) = {}
    /\ \E b \in rows : /\ b.router_id = RouterId("", 1)
                       /\ b.edge_id = NoEdge
                       /\ b.status = ERROR


\* C32: the deploy-result callback sets the binding to ACTIVE exactly when
\* the deploy task completed and to ERROR otherwise; on failure of a
\* non-distributed appliance with a known appliance id all slots of the
\* appliance are removed, and on success no slot is changed.
C32_DeployResult ==
    [][\A t \in deploy_tasks, ok \in BOOLEAN :
         LET b == get_nsxv_router_binding(rows, t.router_id)
         IN  (DeployResult(t, ok) /\ b # NoBinding)
               => /\ rows' = (rows \ {b}) \cup
                      {[b EXCEPT !.status = IF ok THEN ACTIVE ELSE ERROR]}
                  /\ edge_vnic_bindings' =
                       IF ~ ok /\ ~ t.dist /\ t.edge_id # NoEdge
                       THEN {v \in edge_vnic_bindings : v.edge_id # t.edge_id}
                       ELSE edge_vnic_bindings]_vars

\* the service edge failed after it started and lost its grid, the
\* distributed one completed
C32_Witness ==
    /\ \E b \in rows : /\ b.router_id = RouterId("", 1)
                       /\ b.edge_id # NoEdge
                       /\ b.status = ERROR
                       /\ VnicsOfEdge(edge_vnic_bindings, b.edge_id) = {}
    /\ \E b \in rows : /\ b.router_id = RouterId("", 2)
                       /\ b.status = ACTIVE


\* C33: the delete-completion callback removes the row of the deleted
\* resource and, for a non-distributed appliance, all slots of its appliance;
\* when the row is gone already the callback completes (the task ends, the
\* slots are wiped) and leaves every row as it is.
C33_DeleteResult ==
    [][\A t \in delete_tasks :
         DeleteResult(t)
           => /\ rows' = {r \in rows : r.router_id # t.router_id}
              /\ (NoResultFound(rows, t.router_id) => rows' = rows)
              /\ t \notin delete_tasks'
              /\ edge_vnic_bindings' =
                   IF t.dist THEN edge_vnic_bindings
                   ELSE {v \in edge_vnic_bindings : v.edge_id # t.edge_id}]_vars

\* the service edge's delete was delivered: no row, no slot; the distributed
\* edge's delete too, its attachments stay
C33_Witness ==
    /\ delete_tasks = {}
    /\ \A x \in DeletingRouters : NoResultFound(rows, x[1])
    /\ VnicsOfEdge(edge_vnic_bindings, PersistedEdge(1)) = {}
    /\ VnicsOfEdge(edge_vnic_bindings, PersistedEdge(2)) # {}
    /\ rows # {}


\* C39: edge_delete_result removes the row and, for a non-distributed
\* appliance, the slot grid whatever the final status of the delete task:
\* after a delete task that failed the binding has left the store and no
\* binding refers to the appliance that is still there.
C39_DeleteResultWhateverStatus ==
    [][\A t \in delete_tasks :
         DeleteResultFailed(t)
           => /\ t.edge_id \in active_edges'
              /\ NoResultFound(rows', t.router_id)
              /\ \A r \in rows' : r.edge_id # t.edge_id
              /\ ~ t.dist => VnicsOfEdge(edge_vnic_bindings', t.edge_id) = {}]_vars

\* the delete of the service edge failed: the edge is at the backend, the
\* store knows nothing of it
C39_Witness ==
    /\ PersistedEdge(1) \in active_edges
    /\ \A t \in delete_tasks : t.edge_id # PersistedEdge(1)
    /\ \A r \in rows : r.edge_id # PersistedEdge(1)
    /\ VnicsOfEdge(edge_vnic_bindings, PersistedEdge(1)) = {}


\* C34: a failed update callback sets the binding to ERROR only if the
\* binding still exists; racing with a delete of the same binding it
\* neither re-creates the removed row nor raises because the row vanished
\* between its existence check and its update.
C34_UpdateResultRace ==
    [][\A p \in Procs :
         EdgeUpdateResultSet(p)
           => /\ ~ last'.raised
              /\ NoResultFound(rows, frame[p].resource_id)
                   => NoResultFound(rows', frame[p].resource_id)]_vars


\* C35: every backup-prefixed binding that enters ERROR is eventually
\* removed from the store, given that the ERROR purge eventually runs and
\* the delete callbacks are eventually delivered.
C35_ErrorEventuallyRemoved ==
    \A i \in 1..MaxPersisted :
      (\E r \in rows : r.router_id = BackupId(MaxUuid + i) /\ r.status = ERROR)
        ~> NoResultFound(rows, BackupId(MaxUuid + i))

\* a deployment failed, its binding went to ERROR, and purge and delete
\* have emptied the store
C35_Witness ==
    /\ faults = 1
    /\ rows = {}
    /\ delete_tasks = {}
    /\ deploy_tasks = {}


\* C38: an appliance referenced by an idle backup binding (backup-prefixed,
\* ACTIVE or PENDING_CREATE) is referenced by no other binding.
C38_IdleEdgeUnshared ==
    \A b \in rows :
      (LikeBackup(b.router_id) /\ b.status \in {ACTIVE, PENDING_CREATE} /\ b.edge_id # NoEdge)
        => \A r \in rows \ {b} : r.edge_id # b.edge_id


\* C37: the selection loops end after at most one turn per candidate; an
\* ACTIVE backup candidate found dead is handed to _delete_edge exactly once
\* (PENDING_DELETE, a backend delete); the candidate returned is one of the
\* candidates and passed the probe; the result is None exactly when no
\* candidate passes.
C37_SelectionLoops ==
    [][/\ \A c \in ALLOWED_EDGE_TYPES \X ALLOWED_EDGE_SIZES :
            GetAvailableRouterBinding(c[2], c[1])
              => LET cands == _get_backup_edge_bindings(rows, c[2], c[1])
                     passing == {b \in cands : b.status = ACTIVE /\ b.edge_id \in active_edges}
                 IN  /\ last'.tried <= Cardinality(cands)
                     /\ \A i, j \in 1..Len(last'.calls) :
                          i # j => last'.calls[i] # last'.calls[j]
                     /\ \A i \in 1..Len(last'.calls) :
                          /\ last'.calls[i] \in cands \ passing
                          /\ last'.calls[i].status = ACTIVE
                          /\ [last'.calls[i] EXCEPT !.status = PENDING_DELETE] \in rows'
                          /\ DeleteTask(last'.calls[i].router_id, last'.calls[i].edge_id, FALSE)
                               \in delete_tasks'
                     /\ Cardinality(delete_tasks' \ delete_tasks) = Len(last'.calls)
                     /\ \A r \in rows \ rows' : \E i \in 1..Len(last'.calls) : last'.calls[i] = r
                     /\ IF passing = {}
                        THEN last'.sel = NoBinding
                        ELSE last'.sel \in passing
       /\ GetRandomAvailableEdge
            => /\ last'.tried <= Cardinality(last.used.available_edge_ids)
               /\ IF last.used.available_edge_ids \cap active_edges = {}
                  THEN last'.new_id = NoEdge
                  ELSE last'.new_id \in last.used.available_edge_ids \cap active_edges]_vars

\* one backup candidate was dead and torn down, the other was returned
C37_Witness ==
    /\ last.op = "_get_available_router_binding"
    /\ Len(last.calls) = 1
    /\ last.sel # NoBinding
    /\ last.tried = 2
    /\ \E r \in rows : r.status = PENDING_DELETE /\ r = [last.calls[1] EXCEPT !.status = PENDING_DELETE]

\* C40: every dhcp edge _get_available_edges reports as available has a
\* free slot allocate_edge_vnic_with_tunnel_index can take at once, with the
\* metadata network on a vnic there or not, and an edge with at most
\* MAX_TUNNEL_NUM - 1 free slots is reported as conflicting.
C40_AvailableEdgeHasSlot ==
    [][/\ \A vdr \in {{}, {2}}, nets \in SUBSET DhcpNets :
            GetAvailableEdges(vdr, nets)
              => /\ \A e \in last'.used.available_edge_ids :
                      \A n \in DhcpNets, m \in MetadataNets :
                        allocate_edge_vnic_with_tunnel_index(
                          edge_vnic_bindings', e, Net(n), m) # {}
                 /\ \A r \in rows :
                      (/\ r.router_id.pfx = DHCP_EDGE_PREFIX
                       /\ r.status = ACTIVE
                       /\ Cardinality(VnicsOfNetwork(edge_vnic_bindings, r.edge_id, NoNet))
                            <= MAX_TUNNEL_NUM - 1)
                        => r.edge_id \in last'.used.conflict_edge_ids
       /\ \A n \in DhcpNets, m \in MetadataNets :
            ReuseExistingDhcpEdge(n, m) => last'.raised # "NsxPluginException"]_vars

\* the edge reused had just MAX_TUNNEL_NUM free slots, the metadata network
\* on its vnic 1 and free slots there: the slot taken is on another vnic
C40_Witness ==
    /\ last.op = "reuse_existing_dhcp_edge"
    /\ last.raised = "none"
    /\ MAX_TUNNEL_NUM >= 2
    /\ VnicsOfNetwork(edge_vnic_bindings, last.edge_id, Resident(1)) # {}
    /\ \A b \in VnicsOfNetwork(edge_vnic_bindings, last.edge_id, NoNet) : b.vnic_index = 1
    /\ Cardinality(VnicsOfNetwork(edge_vnic_bindings, last.edge_id, NoNet)) = MAX_TUNNEL_NUM - 1


\* C36: whenever the backend rejects an operation on an appliance during DHCP
\* or interface reconfiguration (update_dhcp_edge_service,
\* create_dhcp_bindings, remove_network_from_dhcp_edge,
\* _delete_dhcp_internal_interface), the error is raised to the caller and
\* every Router Binding on that appliance is set to ERROR.
C36_RejectionRaisedAndMarked ==
    [][(last' # last /\ last'.rejected)
         => /\ last'.raised
            /\ \A r \in rows' : r.edge_id = last'.edge_id => r.status = ERROR]_vars

====
